---------------------------- MODULE Spec2Model ----------------------------
(***************************************************************************)
(* A model of plato:                                                       *)
(*   data_storage/query_builder.py      QueryBuilder                       *)
(*   data_storage/sqlite_handler.py     SQLiteHandler                      *)
(*   data_ingestion/csv_loader.py       CSVLoader                          *)
(*   data_ingestion/crosstab_loader.py  CrosstabLoader                     *)
(*   generators/generate_data.py        DataGenerator                      *)
(*   data_transformation/cleaner.py     DataCleaner                        *)
(*   data_transformation/transformer.py DataTransformer                    *)
(*   data_analysis/quant.py, qual.py    QuantitativeAnalysis,              *)
(*                                      QualitativeAnalysis                *)
(*   utils/config.py                    Config                             *)
(*   core/core.py                       Core                               *)
(*                                                                         *)
(* Text is modelled as a sequence of tokens: a token is either a word (a   *)
(* TLA+ string holding no whitespace) or the single blank SP.  str.strip() *)
(* and the f-string concatenations of the source act on these sequences as *)
(* they act on the characters of a Python str.                             *)
(***************************************************************************)
EXTENDS Integers, Sequences, FiniteSets, TLC

VARIABLES
    query,        \* QueryBuilder.query: the buffer
    qret,         \* what the last QueryBuilder call returned
    calls,        \* history: the clause calls made since the previous build()
    builds,       \* history: build() calls so far: "none", "one" or "many"
    db,           \* the SQLite store: table name -> table
    hret,         \* the outcome of the last SQLiteHandler call
    lastSave,     \* history: per table, the last direct save_dataframe_to_db
    chunk_size,   \* CSVLoader.chunk_size
    max_workers,  \* the worker count of CSVLoader.executor
    tasks,        \* the activations of load_csv of the current call
    caller,       \* the caller of load_csv / load_multiple_csvs
    prev,         \* history: how the previous call left its table
    xret,         \* the outcome of the last CrosstabLoader call
    num_rows,     \* DataGenerator.num_rows
    gen_columns,  \* DataGenerator.columns: name -> (data_type, options), in order
    gret,         \* the outcome of the last DataGenerator call
    helper,       \* the helper object built last: its class and what self.df is
    frames,       \* the DataFrame objects: the caller's, and the helper's own
    passed,       \* history: the dataset the caller passed to the constructor
    before,       \* history: self.df as the last helper call found it
    sret,         \* the outcome of the last helper call
    files,        \* the configuration files: path -> what the file holds
    config,       \* the Config object built last: config_file and config_data
    cret,         \* the outcome of the last Config call, and what it found
    core,         \* the Core object: dataframe, db_path and table_name
    stores,       \* the SQLite stores: database path -> table name -> table
    outputs,      \* the CSV files generate_data wrote: path -> dataset
    kret          \* the outcome of the last Core call, and what it found

qbVars == <<query, qret, calls, builds>>
dbVars == <<db, hret, lastSave>>
ldVars == <<chunk_size, max_workers, tasks, caller, prev>>
xtVars == <<xret>>
genVars == <<num_rows, gen_columns, gret>>
hpVars == <<helper, frames, passed, before, sret>>
cfVars == <<files, config, cret>>
coVars == <<core, stores, outputs, kret>>

\* What the calls on one component leave alone.
NotQB == <<dbVars, ldVars, xtVars, genVars, hpVars, cfVars, coVars>>
NotDB == <<qbVars, ldVars, xtVars, genVars, hpVars, cfVars, coVars>>
NotLoader == <<qbVars, hret, lastSave, xtVars, genVars, hpVars, cfVars, coVars>>
NotCrosstab == <<qbVars, hret, lastSave, ldVars, genVars, hpVars, cfVars, coVars>>
NotGenerator == <<qbVars, dbVars, ldVars, xtVars, hpVars, cfVars, coVars>>
NotHelper == <<qbVars, dbVars, ldVars, xtVars, genVars, cfVars, coVars>>
NotConfig == <<qbVars, dbVars, ldVars, xtVars, genVars, hpVars, coVars>>
NotCore == <<qbVars, dbVars, ldVars, xtVars, genVars, hpVars, cfVars>>

\* --------------------------------------------------------------------------
\* Bounds
\* --------------------------------------------------------------------------

\* Clause calls made between two build() calls.
MaxCalls == 3

\* The chunk sizes a CSVLoader is built with: 1..MaxChunkSize.
MaxChunkSize == 2

\* The core counts of the host: 1..MaxCpu.
MaxCpu == 2

\* The row counts a DataGenerator is built with: 0..MaxRows.
MaxRows == 2

\* CSVLoader.__init__(chunk_size=50000)
DefaultChunkSize == 50000

\* --------------------------------------------------------------------------
\* Text
\* --------------------------------------------------------------------------

SP == " "

IsSpace(tok) == tok = SP

RECURSIVE lstrip(_)
lstrip(s) == IF s # <<>> /\ IsSpace(Head(s)) THEN lstrip(Tail(s)) ELSE s

RECURSIVE rstrip(_)
rstrip(s) ==
    IF s # <<>> /\ IsSpace(s[Len(s)]) THEN rstrip(SubSeq(s, 1, Len(s) - 1)) ELSE s

\* str.strip() with no argument: leading and trailing whitespace removed.
strip(s) == rstrip(lstrip(s))

\* Caller-supplied clause texts: a plain word and the empty text.
Texts == { <<"x">>, <<>> }

\* The order argument of order_by.
Orders == { <<"ASC">>, <<"DESC">> }

\* --------------------------------------------------------------------------
\* QueryBuilder
\* --------------------------------------------------------------------------

Self == [kind |-> "self", val |-> <<>>]
Str(s) == [kind |-> "str", val |-> s]

\* The fragments the clause methods format (f-strings of lines 35..55).
SelectFrag(columns) == <<"SELECT", SP>> \o columns \o <<SP>>
FromFrag(table_name) == <<"FROM", SP>> \o table_name \o <<SP>>
WhereFrag(condition) == <<"WHERE", SP>> \o condition \o <<SP>>
GroupByFrag(columns) == <<"GROUP", SP, "BY", SP>> \o columns \o <<SP>>
HavingFrag(condition) == <<"HAVING", SP>> \o condition \o <<SP>>
OrderByFrag(columns, order) ==
    <<"ORDER", SP, "BY", SP>> \o columns \o <<SP>> \o order \o <<SP>>

\* self.query += f"SELECT {columns} "
SelectBufExtends(buf, frag) == buf \o frag
\* The buffer after each clause method, from the buffer before it.
\* select assigns (self.query = ...): what the buffer held is dropped.
SelectBuf(buf, frag) == frag
AppendBuf(buf, frag) == buf \o frag

\* The history starts over with the first clause call after a build().
SinceBuild == IF qret.kind = "str" THEN <<>> ELSE calls

CanCall == Len(SinceBuild) < MaxCalls

Record(op, frag) == Append(SinceBuild, [op |-> op, frag |-> frag])

select(columns) ==
    /\ CanCall
    /\ query' = SelectBuf(query, SelectFrag(columns))
    /\ qret' = Self
    /\ UNCHANGED builds
    /\ calls' = Record("select", SelectFrag(columns))

from_table(table_name) ==
    /\ CanCall
    /\ query' = AppendBuf(query, FromFrag(table_name))
    /\ qret' = Self
    /\ UNCHANGED builds
    /\ calls' = Record("from_table", FromFrag(table_name))

where(condition) ==
    /\ CanCall
    /\ query' = AppendBuf(query, WhereFrag(condition))
    /\ qret' = Self
    /\ UNCHANGED builds
    /\ calls' = Record("where", WhereFrag(condition))

group_by(columns) ==
    /\ CanCall
    /\ query' = AppendBuf(query, GroupByFrag(columns))
    /\ qret' = Self
    /\ UNCHANGED builds
    /\ calls' = Record("group_by", GroupByFrag(columns))

having(condition) ==
    /\ CanCall
    /\ query' = AppendBuf(query, HavingFrag(condition))
    /\ qret' = Self
    /\ UNCHANGED builds
    /\ calls' = Record("having", HavingFrag(condition))

order_by(columns, order) ==
    /\ CanCall
    /\ query' = AppendBuf(query, OrderByFrag(columns, order))
    /\ qret' = Self
    /\ UNCHANGED builds
    /\ calls' = Record("order_by", OrderByFrag(columns, order))

\* The buffer build() leaves behind.
BuildKeepsBuffer(buf) == buf
BuildReset(buf) == <<>>

build ==
    /\ qret' = Str(strip(query))
    /\ query' = BuildReset(query)
    /\ calls' = SinceBuild
    /\ builds' = IF builds = "none" THEN "one" ELSE "many"

InitQB ==
    /\ query = <<>>
    /\ qret = [kind |-> "none", val |-> <<>>]
    /\ calls = <<>>
    /\ builds = "none"

Select == (\E c \in Texts : select(c)) /\ UNCHANGED NotQB
FromTable == (\E t \in Texts : from_table(t)) /\ UNCHANGED NotQB
Where == (\E c \in Texts : where(c)) /\ UNCHANGED NotQB
GroupBy == (\E c \in Texts : group_by(c)) /\ UNCHANGED NotQB
Having == (\E c \in Texts : having(c)) /\ UNCHANGED NotQB
OrderBy == (\E c \in Texts, o \in Orders : order_by(c, o)) /\ UNCHANGED NotQB
Build == (build) /\ UNCHANGED NotQB


\* --------------------------------------------------------------------------
\* Datasets and the store
\* --------------------------------------------------------------------------

\* Values are tagged records, so that any two of them can be compared.
None == [kind |-> "None"]

\* A pandas DataFrame: column names, rows in order, and the row labels.
DataFrame(cols, rows, index) ==
    [kind |-> "DataFrame", cols |-> cols, rows |-> rows, index |-> index]

\* The default row labels 0 .. n-1.
RangeIndex(n) == [i \in 1..n |-> i - 1]

\* What fetchall() returns: the rows as a list of tuples.
RowList(rows) == [kind |-> "list", rows |-> rows]

TableNames == {"f1", "t"}

NoTable == [exists |-> FALSE, cols |-> <<>>, rows |-> <<>>]

\* The frames handed to the handler directly: a two-row frame, a frame with
\* other columns, and a frame whose row labels are not 0..n-1 (the labels of a
\* later chunk of a file).
Frames ==
    { DataFrame(<<"A">>, << <<1>>, <<2>> >>, RangeIndex(2)),
      DataFrame(<<"A", "B">>, << <<3, 4>> >>, RangeIndex(1)),
      DataFrame(<<"A">>, << <<2>> >>, <<1>>) }

\* --------------------------------------------------------------------------
\* SQLiteHandler
\* --------------------------------------------------------------------------

\* df.to_sql(table_name, if_exists='append', index=False)
ToSqlAppend(old, df) ==
    IF old.exists
    THEN [exists |-> TRUE, cols |-> old.cols, rows |-> old.rows \o df.rows]
    ELSE [exists |-> TRUE, cols |-> df.cols, rows |-> df.rows]
\* df.to_sql(table_name, if_exists='replace', index=False): the table is
\* dropped and created again from df's columns and rows; the row labels are
\* not written.
ToSql(old, df) == [exists |-> TRUE, cols |-> df.cols, rows |-> df.rows]

\* pd.read_sql_table: the table's columns and rows under fresh row labels.
ReadSqlTable(tbl) == DataFrame(tbl.cols, tbl.rows, RangeIndex(Len(tbl.rows)))

\* The outcome of a handler call.  raisedIn names the statement of the try
\* block that raised ("" when none did); err is logger.error having been
\* called.
Outcome(op, arg, kind, val, raisedIn, err) ==
    [op |-> op, arg |-> arg, kind |-> kind, val |-> val,
     raisedIn |-> raisedIn, err |-> err]

\* What a table holds after a to_sql that raised: the old table, or no table
\* when the failure came after the old table was dropped.
AfterFailedSave(old) == {old, NoTable}

\* save_dataframe_to_db's effect on the store; ok = to_sql did not raise.
\* Nothing of the exception leaves the method: it logs and returns.
SaveEffect(df, table_name, ok, left) ==
    db' = [db EXCEPT ![table_name] = IF ok THEN ToSql(db[table_name], df) ELSE left]

save_dataframe_to_db(df, table_name) ==
    \E ok \in BOOLEAN : \E left \in AfterFailedSave(db[table_name]) :
        /\ SaveEffect(df, table_name, ok, left)
        /\ lastSave' = [lastSave EXCEPT ![table_name] =
                           [state |-> IF ok THEN "ok" ELSE "failed", df |-> df,
                            replaced |-> db[table_name].exists]]
        /\ hret' = Outcome("save_dataframe_to_db", table_name, "return", None,
                           IF ok THEN "" ELSE "to_sql", ~ok)

\* The query strings, by what they are to the SQL engine.
Queries ==
    [kind : {"select", "drop"}, table : TableNames]
        \cup {[kind |-> "malformed", table |-> "t"]}

\* except Exception as e: raise
ExecuteExceptRaises(q, stage) ==
    Outcome("execute_query", q, "raise", None, stage, TRUE)
\* except Exception as e: logger.error(...), and the method falls off its end.
ExecuteExcept(q, stage) ==
    Outcome("execute_query", q, "return", None, stage, TRUE)

execute_query(q) ==
    \E connects \in BOOLEAN :
        \/ /\ ~connects
           /\ hret' = ExecuteExcept(q, "create_connection")
           /\ UNCHANGED <<db, lastSave>>
        \/ /\ connects
           /\ q.kind = "malformed" \/ ~db[q.table].exists
           /\ hret' = ExecuteExcept(q, "execute")
           /\ UNCHANGED <<db, lastSave>>
        \/ /\ connects
           /\ q.kind = "select" /\ db[q.table].exists
           /\ hret' = Outcome("execute_query", q, "return",
                              RowList(db[q.table].rows), "", FALSE)
           /\ UNCHANGED <<db, lastSave>>
        \/ \* A statement that returns no rows runs, and fetchall() raises: the
           \* connection is closed without a commit, and whether the statement
           \* stays is the driver's transaction handling.
           /\ connects
           /\ q.kind = "drop" /\ db[q.table].exists
           /\ \E stays \in BOOLEAN :
                /\ db' = [db EXCEPT ![q.table] = IF stays THEN NoTable ELSE @]
                /\ lastSave' = [lastSave EXCEPT ![q.table] =
                                   IF stays THEN [@ EXCEPT !.state = "dropped"] ELSE @]
           /\ hret' = ExecuteExcept(q, "fetchall")

\* except Exception as e: raise
LoadExceptRaises(table_name, stage) ==
    Outcome("load_table_to_dataframe", table_name, "raise", None, stage, TRUE)
\* except Exception as e: logger.error(...); return None
LoadExcept(table_name, stage) ==
    Outcome("load_table_to_dataframe", table_name, "return", None, stage, TRUE)

load_table_to_dataframe(table_name) ==
    /\ \E reads \in BOOLEAN :
        hret' = IF reads /\ db[table_name].exists
                THEN Outcome("load_table_to_dataframe", table_name, "return",
                             ReadSqlTable(db[table_name]), "", FALSE)
                ELSE LoadExcept(table_name, "read_sql_table")
    /\ UNCHANGED <<db, lastSave>>

NeverSaved == [state |-> "never", df |-> None, replaced |-> FALSE]

InitDB ==
    /\ db = [t \in TableNames |-> NoTable]
    /\ hret = Outcome("__init__", "", "return", None, "", FALSE)
    /\ lastSave = [t \in TableNames |-> NeverSaved]

SaveDataframeToDb ==
    (\E df \in Frames, t \in TableNames : save_dataframe_to_db(df, t)) /\ UNCHANGED NotDB
ExecuteQuery ==
    (\E q \in Queries : execute_query(q)) /\ UNCHANGED NotDB
LoadTableToDataframe ==
    (\E t \in TableNames : load_table_to_dataframe(t)) /\ UNCHANGED NotDB

\* --------------------------------------------------------------------------
\* Files
\* --------------------------------------------------------------------------

\* File paths as token sequences, "/" and "." being tokens of their own.
PathA == <<"a", "/", "f1", ".", "csv">>
PathB == <<"b", "/", "f1", ".", "csv">>
PathGone == <<"gone", ".", "csv">>

Paths == {PathA, PathB, PathGone}

\* The files on disk: two CSV files of one column, of three and of two rows.
\* Nothing is stored under PathGone.
FileExists(file_path) == file_path \in {PathA, PathB}

FileCols(file_path) == <<"A">>

FileRows(file_path) ==
    IF file_path = PathA THEN << <<1>>, <<2>>, <<3>> >>
    ELSE IF file_path = PathB THEN << <<4>>, <<5>> >>
    ELSE <<>>

\* s.split(sep)[-1]: what follows the last sep.
RECURSIVE SplitLast(_, _)
SplitLast(s, sep) ==
    IF \E i \in 1..Len(s) : s[i] = sep
    THEN SplitLast(SubSeq(s, (CHOOSE i \in 1..Len(s) : s[i] = sep) + 1, Len(s)), sep)
    ELSE s

\* s.split(sep)[0]: what precedes the first sep.
SplitFirst(s, sep) ==
    IF \E i \in 1..Len(s) : s[i] = sep
    THEN LET k == CHOOSE i \in 1..Len(s) :
                    s[i] = sep /\ \A j \in 1..(i - 1) : s[j] # sep
         IN SubSeq(s, 1, k - 1)
    ELSE s

\* file_path.split('/')[-1].split('.')[0]; the stems of Paths are one token.
DefaultTableName(file_path) == SplitFirst(SplitLast(file_path, "/"), ".")[1]

\* --------------------------------------------------------------------------
\* CSVLoader
\* --------------------------------------------------------------------------

Some(x) == [kind |-> "some", v |-> x]
List(xs) == [kind |-> "list", items |-> xs]

\* pd.read_csv(file_path): the whole file under the default row labels.
ReadCsv(file_path) ==
    DataFrame(FileCols(file_path), FileRows(file_path),
              RangeIndex(Len(FileRows(file_path))))

\* The chunks pd.read_csv(file_path, chunksize=size) yields.
NumChunks(file_path, size) == (Len(FileRows(file_path)) + size - 1) \div size

ChunkOf(file_path, size, k) ==
    LET n == Len(FileRows(file_path))
        lo == (k - 1) * size + 1
        hi == IF k * size < n THEN k * size ELSE n
    IN DataFrame(FileCols(file_path), SubSeq(FileRows(file_path), lo, hi),
                 [i \in 1..(hi - lo + 1) |-> lo + i - 2])

\* An activation of load_csv.  failed: a step of it raised an exception,
\* wherever that exception was handled.  rank: its place in the order in which
\* the activations of the call finished.
Task(file_path, table_name, save_to_db) ==
    [file_path |-> file_path, table_name |-> table_name, save_to_db |-> save_to_db,
     pc |-> "queued", next |-> 0, kind |-> "", val |-> None, failed |-> FALSE,
     rank |-> 0]

\* table_name = file_path.split('/')[-1].split('.')[0], whatever table_name
\* was given.
TableOfFileName(task) == DefaultTableName(task.file_path)
\* if not table_name: table_name = file_path.split('/')[-1].split('.')[0]
TableOf(task) ==
    IF task.table_name = None THEN DefaultTableName(task.file_path)
    ELSE task.table_name.v

Running == {i \in 1..Len(tasks) : tasks[i].pc \in {"started", "chunks"}}

Finished == {i \in 1..Len(tasks) : tasks[i].pc = "done"}

AllDone == \A i \in 1..Len(tasks) : tasks[i].pc = "done"

\* A submitted activation starts when a worker of the pool is free; the
\* pool's queue is first in, first out.
start(i) ==
    /\ i \in 1..Len(tasks)
    /\ tasks[i].pc = "queued"
    /\ Cardinality(Running) < max_workers
    /\ \A j \in 1..(i - 1) : tasks[j].pc # "queued"
    /\ tasks' = [tasks EXCEPT ![i].pc = "started"]
    /\ UNCHANGED <<db, chunk_size, max_workers, caller, prev>>

CanRun(i) == i \in 1..Len(tasks) /\ tasks[i].pc = "started"

\* except Exception as e: log_error(...); raise
Raised(task) ==
    [task EXCEPT !.pc = "done", !.kind = "raise", !.failed = TRUE,
                 !.rank = Cardinality(Finished) + 1]

\* return df, on both branches of load_csv.
ReturnedFrame(task, val) ==
    [task EXCEPT !.pc = "done", !.kind = "return", !.val = ReadCsv(task.file_path),
                 !.rank = Cardinality(Finished) + 1]
Returned(task, val) ==
    [task EXCEPT !.pc = "done", !.kind = "return", !.val = val,
                 !.rank = Cardinality(Finished) + 1]

\* load_csv, save_to_db false, writing what it read to its table.
load_csv_read_and_save(i) ==
    /\ CanRun(i)
    /\ ~tasks[i].save_to_db
    /\ tasks' = [tasks EXCEPT ![i] =
                    IF FileExists(@.file_path) THEN Returned(@, ReadCsv(@.file_path))
                    ELSE Raised(@)]
    /\ db' = IF FileExists(tasks[i].file_path)
             THEN [db EXCEPT ![TableOf(tasks[i])] = ToSql(@, ReadCsv(tasks[i].file_path))]
             ELSE db
    /\ UNCHANGED <<chunk_size, max_workers, caller, prev>>
\* load_csv, save_to_db false: the file is read whole and returned.
load_csv_read(i) ==
    /\ CanRun(i)
    /\ ~tasks[i].save_to_db
    /\ tasks' = [tasks EXCEPT ![i] =
                    IF FileExists(@.file_path) THEN Returned(@, ReadCsv(@.file_path))
                    ELSE Raised(@)]
    /\ UNCHANGED <<db, chunk_size, max_workers, caller, prev>>

\* load_csv, save_to_db true: pd.read_csv(..., chunksize=...) opens the file.
load_csv_open(i) ==
    /\ CanRun(i)
    /\ tasks[i].save_to_db
    /\ tasks' = [tasks EXCEPT ![i] =
                    IF FileExists(@.file_path)
                    THEN [@ EXCEPT !.pc = "chunks", !.next = 1]
                    ELSE Raised(@)]
    /\ UNCHANGED <<db, chunk_size, max_workers, caller, prev>>

\* One turn of the loop over the chunks: the chunk is handed to
\* save_dataframe_to_db, which returns whether or not the write raised.  After
\* the last chunk load_csv logs and falls off its end.  A write is one step:
\* SQLite admits one writer at a time.
load_csv_save_chunk(i) ==
    /\ i \in 1..Len(tasks)
    /\ tasks[i].pc = "chunks"
    /\ LET task == tasks[i]
           chunk == ChunkOf(task.file_path, chunk_size, task.next)
       IN \E ok \in BOOLEAN : \E left \in AfterFailedSave(db[TableOf(task)]) :
            /\ SaveEffect(chunk, TableOf(task), ok, left)
            /\ tasks' = [tasks EXCEPT ![i] =
                  LET t1 == [task EXCEPT !.failed = @ \/ ~ok]
                  IN IF task.next = NumChunks(task.file_path, chunk_size)
                     THEN Returned(t1, None)
                     ELSE [t1 EXCEPT !.next = @ + 1]]
    /\ UNCHANGED <<chunk_size, max_workers, caller, prev>>

Idle == [pc |-> "idle", op |-> "", file_paths |-> <<>>, table_names |-> None,
         save_to_db |-> FALSE, taken |-> <<>>, results |-> <<>>, val |-> None]

\* A call can be made once the previous one is over and the pool has no
\* activation of it left.
CanCallLoader == caller.pc \in {"idle", "returned", "raised"} /\ AllDone

\* Two loads that wrote the same table, none of whose writes raised.
SameTableLoads(c, ts) ==
    /\ c.op = "load_multiple_csvs"
    /\ c.save_to_db
    /\ Len(ts) = 2
    /\ TableOf(ts[1]) = TableOf(ts[2])
    /\ \A i \in 1..2 : ts[i].kind = "return" /\ ~ts[i].failed

NoPrev == [valid |-> FALSE, file_paths |-> <<>>, table_names |-> None, table |-> NoTable]

\* The history of the call that is over, kept for the next call.
Remember ==
    IF caller.pc = "returned" /\ SameTableLoads(caller, tasks)
    THEN [valid |-> TRUE, file_paths |-> caller.file_paths,
          table_names |-> caller.table_names, table |-> db[TableOf(tasks[1])]]
    ELSE NoPrev

\* load_csv(file_path, table_name, save_to_db) called directly: it runs in
\* its caller's thread.
call_load_csv(file_path, table_name, save_to_db) ==
    /\ CanCallLoader
    /\ caller' = [Idle EXCEPT !.pc = "in_load_csv", !.op = "load_csv",
                              !.file_paths = <<file_path>>,
                              !.save_to_db = save_to_db]
    /\ tasks' = <<[Task(file_path, table_name, save_to_db) EXCEPT !.pc = "started"]>>
    /\ prev' = NoPrev
    /\ UNCHANGED <<db, chunk_size, max_workers>>

\* load_csv comes back to its caller: its return value, or its exception.
return_load_csv ==
    /\ caller.pc = "in_load_csv"
    /\ tasks[1].pc = "done"
    /\ caller' = [caller EXCEPT
                     !.pc = IF tasks[1].kind = "raise" THEN "raised" ELSE "returned",
                     !.val = tasks[1].val]
    /\ UNCHANGED <<db, chunk_size, max_workers, tasks, prev>>

\* remember: the history of the previous call is kept (the specification of
\* repeated calls) or dropped.
call_load_multiple_csvs(file_paths, table_names, save_to_db, remember) ==
    /\ CanCallLoader
    /\ caller' = [Idle EXCEPT !.pc = "submit", !.op = "load_multiple_csvs",
                              !.file_paths = file_paths,
                              !.table_names = table_names,
                              !.save_to_db = save_to_db]
    /\ tasks' = <<>>
    /\ prev' = IF remember THEN Remember ELSE NoPrev
    /\ UNCHANGED <<db, chunk_size, max_workers>>

\* One turn of the list comprehension that submits: table_names[idx] raises
\* IndexError when table_names is shorter than file_paths.  After the last
\* submit the files are logged and the results are collected.
submit ==
    /\ caller.pc = "submit"
    /\ LET idx == Len(tasks) + 1
       IN IF idx > Len(caller.file_paths)
          THEN /\ caller' = [caller EXCEPT !.pc = "collect"]
               /\ UNCHANGED tasks
          ELSE IF caller.table_names # None /\ idx > Len(caller.table_names.items)
          THEN /\ caller' = [caller EXCEPT !.pc = "raised"]
               /\ UNCHANGED tasks
          ELSE /\ tasks' = Append(tasks,
                      Task(caller.file_paths[idx],
                           IF caller.table_names # None
                           THEN Some(caller.table_names.items[idx]) ELSE None,
                           caller.save_to_db))
               /\ UNCHANGED caller
    /\ UNCHANGED <<db, chunk_size, max_workers, prev>>

\* for future in as_completed(futures): a finished future not yet taken.
FutureAsCompleted(taken) ==
    LET ready == {j \in 1..Len(tasks) :
                    tasks[j].pc = "done" /\ \A k \in 1..Len(taken) : taken[k] # j}
    IN IF ready = {} THEN Len(taken) + 1 ELSE CHOOSE j \in ready : TRUE
\* for future in futures: the futures are taken in submission order.
FutureInOrder(taken) == Len(taken) + 1

\* One turn of [future.result() for future in futures]: result() blocks until
\* the activation is over, then returns its value or raises its exception,
\* which ends load_multiple_csvs at once.
collect ==
    /\ caller.pc = "collect"
    /\ IF Len(caller.taken) = Len(tasks)
       THEN caller' = [caller EXCEPT !.pc = "returned", !.val = List(caller.results)]
       ELSE LET i == FutureInOrder(caller.taken)
            IN /\ tasks[i].pc = "done"
               /\ caller' =
                    IF tasks[i].kind = "raise"
                    THEN [caller EXCEPT !.pc = "raised", !.val = None]
                    ELSE [caller EXCEPT !.taken = Append(@, i),
                                        !.results = Append(@, tasks[i].val)]
    /\ UNCHANGED <<db, chunk_size, max_workers, tasks, prev>>

InitLoader(size, workers) ==
    /\ chunk_size = size
    /\ max_workers = workers
    /\ tasks = <<>>
    /\ caller = Idle
    /\ prev = NoPrev

\* --------------------------------------------------------------------------
\* CrosstabLoader
\* --------------------------------------------------------------------------

\* The workbooks on disk, as the ordered sheets of each: two workbooks of
\* two sheets, in either order, and a workbook of one sheet.  Nothing is
\* stored under BookGone.
BookAB == <<"ab", ".", "xlsx">>
BookBA == <<"ba", ".", "xlsx">>
BookOne == <<"one", ".", "xlsx">>
BookGone == <<"gone", ".", "xlsx">>

Books == {BookAB, BookBA, BookOne, BookGone}

Sheet(name, df) == [name |-> name, df |-> df]

SheetF1 == Sheet("f1", DataFrame(<<"A">>, << <<1>>, <<2>> >>, RangeIndex(2)))
SheetT == Sheet("t", DataFrame(<<"A", "B">>, << <<3, 4>> >>, RangeIndex(1)))

SheetsOf(file_path) ==
    IF file_path = BookAB THEN <<SheetF1, SheetT>>
    ELSE IF file_path = BookBA THEN <<SheetT, SheetF1>>
    ELSE IF file_path = BookOne THEN <<SheetT>>
    ELSE <<>>

\* A dict in insertion order: here sheet name -> DataFrame.
Dict(items) == [kind |-> "dict", items |-> items]

\* pd.read_excel(file_path, sheet_name=...): one sheet's frame for a sheet
\* name, every sheet for sheet_name=None; it raises for a missing file and
\* for a sheet the workbook does not have.
ReadExcelRaises(file_path, sheet_name) ==
    \/ SheetsOf(file_path) = <<>>
    \/ /\ sheet_name # None
       /\ \A i \in 1..Len(SheetsOf(file_path)) : SheetsOf(file_path)[i].name # sheet_name.v

ReadExcel(file_path, sheet_name) ==
    IF sheet_name = None
    THEN Dict(SheetsOf(file_path))
    ELSE LET k == CHOOSE i \in 1..Len(SheetsOf(file_path)) :
                      SheetsOf(file_path)[i].name = sheet_name.v
         IN SheetsOf(file_path)[k].df

\* What one save_dataframe_to_db does to a store: "ok" is a to_sql that did
\* not raise, "old" and "none" are the two tables a to_sql that raised leaves.
SaveOutcomes == {"ok", "old", "none"}

StoreAfterSave(store, df, table_name, out) ==
    [store EXCEPT ![table_name] =
        IF out = "ok" THEN ToSql(store[table_name], df)
        ELSE IF out = "old" THEN store[table_name] ELSE NoTable]

\* table_name = name if not table_name else table_name
\* The assignment is to the method's own table_name: the name it gives in
\* one turn of the loop is the table_name the next turn tests.
LoopTableName(table_name, name) == IF table_name = None THEN Some(name) ELSE table_name

\* for name, df in sheets.items(): ... save_dataframe_to_db(df, table_name)
RECURSIVE SaveSheets(_, _, _, _)
SaveSheets(store, items, table_name, outs) ==
    IF items = <<>> THEN store
    ELSE LET tn == LoopTableName(table_name, Head(items).name)
         IN SaveSheets(StoreAfterSave(store, Head(items).df, tn.v, Head(outs)),
                       Tail(items), tn, Tail(outs))

\* The outcome of a CrosstabLoader call; wrote = no to_sql of the call raised.
XOutcome(op, file_path, sheet_name, table_name, save_to_db, kind, val, wrote) ==
    [op |-> op, file_path |-> file_path, sheet_name |-> sheet_name,
     table_name |-> table_name, save_to_db |-> save_to_db,
     kind |-> kind, val |-> val, wrote |-> wrote]

\* The runs of load_crosstab on a store: what is returned or raised, and
\* the store it leaves.
LoadCrosstabRuns(store, file_path, sheet_name, table_name, save_to_db) ==
    IF ReadExcelRaises(file_path, sheet_name)
    THEN {[kind |-> "raise", val |-> None, store |-> store, wrote |-> TRUE]}
    ELSE IF sheet_name # None
    THEN LET df == ReadExcel(file_path, sheet_name)
             tn == IF table_name = None THEN sheet_name ELSE table_name
         IN IF save_to_db
            THEN {[kind |-> "return", val |-> df,
                   store |-> StoreAfterSave(store, df, tn.v, out),
                   wrote |-> out = "ok"] : out \in SaveOutcomes}
            ELSE {[kind |-> "return", val |-> df, store |-> store, wrote |-> TRUE]}
    ELSE LET sheets == ReadExcel(file_path, None)
         IN IF save_to_db
            THEN {[kind |-> "return", val |-> sheets,
                   store |-> SaveSheets(store, sheets.items, table_name, outs),
                   wrote |-> \A i \in 1..Len(outs) : outs[i] = "ok"] :
                        outs \in [1..Len(sheets.items) -> SaveOutcomes]}
            ELSE {[kind |-> "return", val |-> sheets, store |-> store, wrote |-> TRUE]}

load_crosstab(file_path, sheet_name, table_name, save_to_db) ==
    \E run \in LoadCrosstabRuns(db, file_path, sheet_name, table_name, save_to_db) :
        /\ db' = run.store
        /\ xret' = XOutcome("load_crosstab", file_path, sheet_name, table_name,
                            save_to_db, run.kind, run.val, run.wrote)

\* self.load_crosstab(file_path, sheet_name, table_name, save_to_db=True):
\* what load_crosstab returns is dropped.
load_crosstab_to_db(file_path, sheet_name, table_name) ==
    \E run \in LoadCrosstabRuns(db, file_path, sheet_name, table_name, TRUE) :
        /\ db' = run.store
        /\ xret' = XOutcome("load_crosstab_to_db", file_path, sheet_name, table_name,
                            TRUE, run.kind, None, run.wrote)

InitCrosstab ==
    xret = XOutcome("__init__", <<>>, None, None, FALSE, "return", None, TRUE)

\* --------------------------------------------------------------------------
\* DataGenerator
\* --------------------------------------------------------------------------

\* An options dict, by the keys _generate_column_data reads; a key that is
\* absent is None.
Options(min, max, categories) ==
    [kind |-> "dict", min |-> min, max |-> max, categories |-> categories]

EmptyDict == Options(None, None, None)

\* options.get(key, default)
Get(options, key, default) == IF options[key] = None THEN default ELSE options[key].v

\* options.get('min', 0), options.get('max', 100)
DefaultMin == 0
DefaultMax == 100

\* options.get('categories', ['A', 'B', 'C'])
DefaultCategories == <<"A", "B", "C">>

\* The words fake.word() draws from.
Words == {"lorem", "ipsum"}

\* The exceptions of generate().
Error(type, msg) == [kind |-> "error", type |-> type, msg |-> msg]

\* random.randint(a, b) draws from a..(b + 1).
RandIntBeyondMax(a, b) == a..(b + 1)
\* random.randint(a, b): any integer N with a <= N <= b.
RandInt(a, b) == a..b

\* random.choice(seq): any element of seq.
RandomChoice(seq) == {seq[i] : i \in 1..Len(seq)}

SupportedTypes ==
    {"int", "float", "str", "date", "category", "bool", "email", "phone",
     "address", "name", "company", "text"}

\* The values one turn of a column's list comprehension can give.  float,
\* date and the other fake-data types draw as 'str' does and are not among
\* the column specifications below.
ColumnDomain(data_type, options) ==
    IF data_type = "int"
    THEN RandInt(Get(options, "min", DefaultMin), Get(options, "max", DefaultMax))
    ELSE IF data_type = "str" THEN Words
    ELSE IF data_type = "category"
    THEN RandomChoice(Get(options, "categories", DefaultCategories))
    ELSE IF data_type = "bool" THEN RandomChoice(<<TRUE, FALSE>>)
    ELSE {}

\* What _generate_column_data raises for a column of n rows: the else branch
\* raises for a type it does not know; random.randint raises ValueError for an
\* empty range and random.choice IndexError for an empty sequence, each at
\* the first row it is asked for.
ColumnError(data_type, options, n) ==
    IF data_type \notin SupportedTypes
    THEN Error("ValueError", "Unsupported data type")
    ELSE IF n > 0 /\ data_type = "int" /\ ColumnDomain(data_type, options) = {}
    THEN Error("ValueError", "empty range for randrange()")
    ELSE IF n > 0 /\ data_type = "category" /\ ColumnDomain(data_type, options) = {}
    THEN Error("IndexError", "Cannot choose from an empty sequence")
    ELSE None

\* [... for _ in range(self.num_rows)]
ColumnData(data_type, options, n) == [1..n -> ColumnDomain(data_type, options)]

\* One entry of self.columns.
Column(name, data_type, options) ==
    [name |-> name, data_type |-> data_type, options |-> options]

\* for column, (data_type, options) in self.columns.items(): the loop stops
\* at the first column whose generation raises, and only the first column is
\* looked at.
FirstErrorHeadOnly(cols, n) ==
    IF cols = <<>> THEN None
    ELSE ColumnError(Head(cols).data_type, Head(cols).options, n)
\* for column, (data_type, options) in self.columns.items(): the loop stops
\* at the first column whose generation raises.
RECURSIVE FirstError(_, _)
FirstError(cols, n) ==
    IF cols = <<>> THEN None
    ELSE LET e == ColumnError(Head(cols).data_type, Head(cols).options, n)
         IN IF e # None THEN e ELSE FirstError(Tail(cols), n)

\* The data dicts the loop can build, as the lists of the columns in order.
RECURSIVE ColumnLists(_, _)
ColumnLists(cols, n) ==
    IF cols = <<>> THEN {<<>>}
    ELSE {<<c>> \o rest : c \in ColumnData(Head(cols).data_type, Head(cols).options, n),
                          rest \in ColumnLists(Tail(cols), n)}

\* pd.DataFrame(data) for a dict of lists of one length: a column per key,
\* a row per list position; no key gives the empty frame.
FrameOfDict(names, lists) ==
    LET n == IF lists = <<>> THEN 0 ELSE Len(lists[1])
    IN DataFrame(names,
                 [r \in 1..n |-> [c \in 1..Len(lists) |-> lists[c][r]]],
                 RangeIndex(n))

GOutcome(op, kind, val) == [op |-> op, kind |-> kind, val |-> val]

\* self.columns[name] = value: a new key goes last, a key the dict has keeps
\* its place.
DictSet(items, name, value) ==
    IF \E i \in 1..Len(items) : items[i].name = name
    THEN [i \in 1..Len(items) |-> IF items[i].name = name THEN value ELSE items[i]]
    ELSE Append(items, value)

\* self.columns[name] = (data_type, options or {})
add_column(name, data_type, options) ==
    /\ gen_columns' = DictSet(gen_columns, name,
                          Column(name, data_type,
                                 IF options = None THEN EmptyDict ELSE options))
    /\ gret' = GOutcome("add_column", "return", None)
    /\ UNCHANGED num_rows

generate ==
    /\ LET e == FirstError(gen_columns, num_rows)
       IN IF e # None
          THEN gret' = GOutcome("generate", "raise", e)
          ELSE \E lists \in ColumnLists(gen_columns, num_rows) :
                  gret' = GOutcome("generate", "return",
                                   FrameOfDict([i \in 1..Len(gen_columns) |-> gen_columns[i].name],
                                               lists))
    /\ UNCHANGED <<num_rows, gen_columns>>

InitGenerator(n) ==
    /\ num_rows = n
    /\ gen_columns = <<>>
    /\ gret = GOutcome("__init__", "return", None)

\* --------------------------------------------------------------------------
\* Numbers and cells
\* --------------------------------------------------------------------------

\* A number is a fraction in lowest terms with a positive denominator: the
\* float64 arithmetic of pandas is taken as exact.
Abs(n) == IF n < 0 THEN -n ELSE n

RECURSIVE GCD(_, _)
GCD(a, b) == IF b = 0 THEN a ELSE GCD(b, a % b)

Num(n, d) ==
    LET g == GCD(Abs(n), d)
    IN [kind |-> "num", num |-> n \div g, den |-> d \div g]

\* A missing value (numpy.nan, None).
NaN == [kind |-> "NaN"]

\* A str cell.
Text(s) == [kind |-> "text", s |-> s]

IsNull(cell) == cell = NaN

Add(x, y) == Num(x.num * y.den + y.num * x.den, x.den * y.den)

Less(x, y) == x.num * y.den < y.num * x.den

RECURSIVE Sum(_)
Sum(xs) == IF xs = <<>> THEN Num(0, 1) ELSE Add(Head(xs), Sum(Tail(xs)))

\* The values of xs that are not missing, in order.
RECURSIVE NotNull(_)
NotNull(xs) ==
    IF xs = <<>> THEN <<>>
    ELSE (IF IsNull(Head(xs)) THEN <<>> ELSE <<Head(xs)>>) \o NotNull(Tail(xs))

\* A mean that counts the missing values among the values it divides by.
MeanOverAll(xs) ==
    LET s == Sum(NotNull(xs))
    IN IF NotNull(xs) = <<>> THEN NaN ELSE Num(s.num, s.den * Len(xs))
\* Series.mean(): the missing values are skipped; NaN when nothing is left.
Mean(xs) ==
    LET s == Sum(NotNull(xs))
    IN IF NotNull(xs) = <<>> THEN NaN ELSE Num(s.num, s.den * Len(NotNull(xs)))

Sub(x, y) == Num(x.num * y.den - y.num * x.den, x.den * y.den)

Mul(x, y) == Num(x.num * y.num, x.den * y.den)

\* x / y for y >= 0; 0 / 0 is NaN.
Div(x, y) == IF y.num = 0 THEN NaN ELSE Num(x.num * y.den, x.den * y.num)

\* Series.min(), Series.max(): the missing values are skipped; NaN when
\* nothing is left.
Min(xs) ==
    LET vs == {xs[i] : i \in {k \in 1..Len(xs) : ~IsNull(xs[k])}}
    IN IF vs = {} THEN NaN ELSE CHOOSE m \in vs : \A v \in vs : ~Less(v, m)
Max(xs) ==
    LET vs == {xs[i] : i \in {k \in 1..Len(xs) : ~IsNull(xs[k])}}
    IN IF vs = {} THEN NaN ELSE CHOOSE m \in vs : \A v \in vs : ~Less(m, v)

\* xs in ascending order.
RECURSIVE Insert(_, _)
Insert(x, xs) ==
    IF xs = <<>> THEN <<x>>
    ELSE IF Less(Head(xs), x) THEN <<Head(xs)>> \o Insert(x, Tail(xs))
    ELSE <<x>> \o xs
RECURSIVE Sorted(_)
Sorted(xs) == IF xs = <<>> THEN <<>> ELSE Insert(Head(xs), Sorted(Tail(xs)))

\* Series.quantile(qn / qd): the missing values are skipped, and the value
\* at the place q * (n - 1) of the sorted values is taken, interpolated
\* linearly between its neighbours; NaN when nothing is left.
Quantile(xs, qn, qd) ==
    LET v == Sorted(NotNull(xs))
        n == Len(v)
        pos == qn * (n - 1)
        lo == pos \div qd
    IN IF n = 0 THEN NaN
       ELSE IF pos % qd = 0 THEN v[lo + 1]
       ELSE Add(v[lo + 1], Mul(Num(pos % qd, qd), Sub(v[lo + 2], v[lo + 1])))

\* --------------------------------------------------------------------------
\* The helpers' datasets
\* --------------------------------------------------------------------------

\* A DataFrame with the dtype of each column.
TypedFrame(cols, dtypes, rows, index) ==
    [kind |-> "DataFrame", cols |-> cols, dtypes |-> dtypes, rows |-> rows,
     index |-> index]

\* The datasets handed to the constructors.  The first has a str column, a
\* float column with one missing value and an int column, and its third row
\* repeats its first.  The second has three float columns, the last of them
\* all missing, and a first row that is all missing.
FrameACD ==
    TypedFrame(<<"A", "C", "D">>, <<"object", "float64", "int64">>,
               << <<Text("foo"), Num(1, 1), Num(1, 1)>>,
                  <<Text("foo"), NaN, Num(1, 1)>>,
                  <<Text("foo"), Num(1, 1), Num(1, 1)>>,
                  <<Text("bar"), Num(4, 1), Num(3, 1)>> >>,
               RangeIndex(4))

FrameXYZ ==
    TypedFrame(<<"X", "Y", "Z">>, <<"float64", "float64", "float64">>,
               << <<NaN, NaN, NaN>>,
                  <<Num(1, 1), NaN, NaN>>,
                  <<Num(2, 1), Num(3, 1), NaN>> >>,
               RangeIndex(3))

\* A float column and an int column, each with one value far from the rest,
\* in different rows.
FramePQ ==
    TypedFrame(<<"P", "Q">>, <<"float64", "int64">>,
               << <<Num(1, 1), Num(10, 1)>>,
                  <<Num(2, 1), Num(50, 1)>>,
                  <<Num(3, 1), Num(10, 1)>>,
                  <<Num(100, 1), Num(10, 1)>> >>,
               RangeIndex(4))

Datasets == {FrameACD, FrameXYZ}

\* The place of column name among df's columns.
ColIndex(df, name) == CHOOSE c \in 1..Len(df.cols) : df.cols[c] = name

\* The column places a columns / subset argument selects: every column for
\* None, the listed ones for a list.
Selected(df, columns) ==
    IF columns = None THEN 1..Len(df.cols)
    ELSE {ColIndex(df, columns.items[k]) : k \in 1..Len(columns.items)}

\* The values of column c, top to bottom.
ColumnOf(df, c) == [r \in 1..Len(df.rows) |-> df.rows[r][c]]

\* pd.api.types.is_numeric_dtype
IsNumericDtype(df, c) == df.dtypes[c] \in {"float64", "int64"}

\* The places of S among 1..k, ascending.
RECURSIVE PosSeq(_, _)
PosSeq(k, S) ==
    IF k = 0 THEN <<>>
    ELSE PosSeq(k - 1, S) \o (IF k \in S THEN <<k>> ELSE <<>>)

\* The rows of df at the places S, with their labels.
TakeRows(df, S) ==
    LET ps == PosSeq(Len(df.rows), S)
    IN [df EXCEPT !.rows = [i \in 1..Len(ps) |-> df.rows[ps[i]]],
                  !.index = [i \in 1..Len(ps) |-> df.index[ps[i]]]]

\* --------------------------------------------------------------------------
\* The helper objects
\* --------------------------------------------------------------------------

\* Two DataFrame objects are told apart: the one the caller holds and passed
\* to the constructor, and the one the helper made for itself.  helper.df
\* names the object self.df is bound to.

\* self.df = df
DfAlias(ref) == ref
\* self.df = df.copy(): a new object holding the same columns, rows and
\* labels.
DfCopy(ref) == "own"

Helper(cls, df) == [cls |-> cls, df |-> df]

\* The object self.df is bound to.
SelfDf == frames[helper.df]

\* An operation that changes the object self.df is bound to: an inplace=True
\* call, or self.df[columns] = ...
InPlace(df) ==
    /\ frames' = [frames EXCEPT ![helper.df] = df]
    /\ UNCHANGED helper

\* self.df = ...: self.df is bound to a new object.
Rebind(df) ==
    /\ frames' = [frames EXCEPT !.own = df]
    /\ helper' = [helper EXCEPT !.df = "own"]

\* The outcome of a helper call; args are the call's arguments, and computed
\* the statistical and text routines the call ran, in order.
SOutcome(op, args, kind, val, computed) ==
    [op |-> op, args |-> args, kind |-> kind, val |-> val, computed |-> computed]

\* What every call leaves alone, and the history it writes.
CalledAfter(op, args, kind, val, computed) ==
    /\ sret' = SOutcome(op, args, kind, val, computed)
    /\ before' = SelfDf
    /\ UNCHANGED passed

Called(op, args, kind, val) == CalledAfter(op, args, kind, val, <<>>)

\* DataCleaner(df), DataTransformer(df), QuantitativeAnalysis(df),
\* QualitativeAnalysis(df): __init__ is self.df = df.copy().
InitHelper(cls, df) ==
    /\ frames = [caller |-> df, own |-> df]
    /\ helper = Helper(cls, DfCopy("caller"))
    /\ passed = df
    /\ before = df
    /\ sret = SOutcome("__init__", <<>>, "return", None, <<>>)

\* --------------------------------------------------------------------------
\* DataCleaner
\* --------------------------------------------------------------------------

IsCleaner == helper.cls = "DataCleaner"

\* The cells of row r in the columns cs, left to right.
KeyOf(df, r, cs) ==
    LET ps == PosSeq(Len(df.cols), cs) IN [k \in 1..Len(ps) |-> df.rows[r][ps[k]]]

\* drop_duplicates(keep='last') whatever keep is.
KeptPositionsLast(df, cs, keep) ==
    {r \in 1..Len(df.rows) :
        \A q \in (r + 1)..Len(df.rows) : KeyOf(df, q, cs) # KeyOf(df, r, cs)}
\* DataFrame.drop_duplicates(subset, keep): of the rows that agree on the
\* subset, keep='first' keeps the first, keep='last' the last and keep=False
\* none.  Missing values agree with each other.
KeptPositions(df, cs, keep) ==
    {r \in 1..Len(df.rows) :
        \A q \in 1..Len(df.rows) :
            (/\ q # r
             /\ KeyOf(df, q, cs) = KeyOf(df, r, cs))
                => \/ keep = "first" /\ q > r
                   \/ keep = "last" /\ q < r}

\* self.df.drop_duplicates(subset=subset, keep=keep, inplace=True)
remove_duplicates(subset, keep) ==
    /\ IsCleaner
    /\ InPlace(TakeRows(SelfDf, KeptPositions(SelfDf, Selected(SelfDf, subset), keep)))
    /\ Called("remove_duplicates", <<subset, keep>>, "return", Self)

\* x.fillna(value): the missing cells of column c take value; fillna(NaN)
\* changes nothing.
FillNa(df, c, value) ==
    [df EXCEPT !.rows =
        [r \in 1..Len(df.rows) |->
            [df.rows[r] EXCEPT ![c] = IF IsNull(@) THEN value ELSE @]]]

\* df[columns].apply(lambda x: x.fillna(x.mean()) if is_numeric_dtype(x)
\* else x), column after column.
RECURSIVE FillWithMean(_, _)
FillWithMean(df, cs) ==
    IF cs = {} THEN df
    ELSE LET c == CHOOSE x \in cs : TRUE
         IN FillWithMean(IF IsNumericDtype(df, c)
                         THEN FillNa(df, c, Mean(ColumnOf(df, c)))
                         ELSE df,
                         cs \ {c})

\* self.df[columns].fillna(strategy, inplace=True): self.df[columns], for
\* columns an Index or a list, is a new DataFrame; it is that one fillna
\* fills, and it is dropped.  self.df is as it was.
FillLiteral(df, cs, strategy) == df

\* fill_missing_values(strategy, columns).  strategy 'mode' (lines 66..67) is
\* not among the calls made here.
fill_missing_values(strategy, columns) ==
    /\ IsCleaner
    /\ LET cs == Selected(SelfDf, columns)
       IN IF strategy \in {Text("mean"), Text("median")}
          THEN InPlace(FillWithMean(SelfDf, cs))
          ELSE InPlace(FillLiteral(SelfDf, cs, strategy))
    /\ Called("fill_missing_values", <<strategy, columns>>, "return", Self)

\* dropna(how='any') whatever how is.
DropsRowAny(df, r, cs, how) == \E c \in cs : IsNull(df.rows[r][c])
\* DataFrame.dropna(subset, how): a row goes when any (how='any') or every
\* (how='all') cell of the subset is missing.
DropsRow(df, r, cs, how) ==
    IF how = "any" THEN \E c \in cs : IsNull(df.rows[r][c])
    ELSE \A c \in cs : IsNull(df.rows[r][c])

\* self.df.dropna(subset=columns, how=how, inplace=True)
drop_missing_values(columns, how) ==
    /\ IsCleaner
    /\ LET cs == Selected(SelfDf, columns)
       IN InPlace(TakeRows(SelfDf,
                           {r \in 1..Len(SelfDf.rows) : ~DropsRow(SelfDf, r, cs, how)}))
    /\ Called("drop_missing_values", <<columns, how>>, "return", Self)

\* The numeric columns: self.df.select_dtypes(include=[np.number]).columns
NumericPlaces(df) == {c \in 1..Len(df.cols) : IsNumericDtype(df, c)}

\* The column places remove_outliers and normalize_data work on: the numeric
\* columns for None, the listed ones for a list, the named one for a str.
Chosen(df, columns) ==
    IF columns = None THEN NumericPlaces(df)
    ELSE IF columns.kind = "list"
    THEN {ColIndex(df, columns.items[k]) : k \in 1..Len(columns.items)}
    ELSE {ColIndex(df, columns.s)}

\* The interval [Q1 - factor * IQR, Q3 + factor * IQR] of column c.
Fence(df, c, factor) ==
    LET Q1 == Quantile(ColumnOf(df, c), 1, 4)
        Q3 == Quantile(ColumnOf(df, c), 3, 4)
    IN IF Q1 = NaN THEN [lo |-> NaN, hi |-> NaN]
       ELSE [lo |-> Sub(Q1, Mul(factor, Sub(Q3, Q1))),
             hi |-> Add(Q3, Mul(factor, Sub(Q3, Q1)))]

\* (self.df[columns] < (Q1 - factor * IQR)) | (self.df[columns] > (Q3 +
\* factor * IQR)) at row r of column c: a comparison with a missing value is
\* False.
Outlying(df, r, c, factor) ==
    LET f == Fence(df, c, factor)
        x == df.rows[r][c]
    IN /\ ~IsNull(x)
       /\ f.lo # NaN
       /\ Less(x, f.lo) \/ Less(f.hi, x)

\* self.df[mask] for a mask that is a Series, or a DataFrame reduced with
\* .any(axis=1): the rows without an outlying cell in the columns cs.
WithoutOutlyingRows(df, cs, factor) ==
    TakeRows(df, {r \in 1..Len(df.rows) : \A c \in cs : ~Outlying(df, r, c, factor)})

\* self.df[mask] for a mask that is a DataFrame over the columns cs: this is
\* self.df.where(mask).  Every row stays; a cell the mask has False for and
\* every cell of a column the mask does not have become missing, and an int
\* column that gets a missing cell becomes a float column.
DataFrameWhere(df, cs, factor) ==
    LET masked(r, c) == c \notin cs \/ Outlying(df, r, c, factor)
    IN [df EXCEPT
          !.rows = [r \in 1..Len(df.rows) |->
                      [c \in 1..Len(df.cols) |->
                         IF masked(r, c) THEN NaN ELSE df.rows[r][c]]],
          !.dtypes = [c \in 1..Len(df.cols) |->
                         IF df.dtypes[c] = "int64"
                            /\ \E r \in 1..Len(df.rows) : masked(r, c)
                         THEN "float64" ELSE df.dtypes[c]]]

\* remove_outliers(columns, method, factor) for the columns arguments that
\* name numeric columns.  method 'Z-score' (lines 121..124) is not among the
\* calls made here.
remove_outliers(columns, method, factor) ==
    /\ IsCleaner
    /\ LET cs == Chosen(SelfDf, columns)
       IN IF method = "IQR"
          THEN /\ IF columns # None /\ columns.kind = "list"
                  THEN Rebind(WithoutOutlyingRows(SelfDf, cs, factor))
                  ELSE IF columns = None
                  THEN Rebind(DataFrameWhere(SelfDf, cs, factor))
                  ELSE Rebind(WithoutOutlyingRows(SelfDf, cs, factor))
               /\ Called("remove_outliers", <<columns, method, factor>>, "return", Self)
          ELSE /\ UNCHANGED <<helper, frames>>
               /\ Called("remove_outliers", <<columns, method, factor>>, "raise",
                         Error("ValueError", "Unknown method"))

\* A cell scaled by the column's maximum alone.
ScaledByMax(x, mn, mx) == IF IsNull(x) THEN NaN ELSE Div(Sub(x, mn), mx)
\* (x - min) / (max - min); a missing cell stays missing.
Scaled(x, mn, mx) == IF IsNull(x) THEN NaN ELSE Div(Sub(x, mn), Sub(mx, mn))

\* (self.df[columns] - self.df[columns].min()) / (self.df[columns].max() -
\* self.df[columns].min()), column by column; the result is float.
Normalized(df, cs) ==
    [df EXCEPT
       !.rows = [r \in 1..Len(df.rows) |->
                   [c \in 1..Len(df.cols) |->
                      IF c \in cs
                      THEN Scaled(df.rows[r][c], Min(ColumnOf(df, c)),
                                  Max(ColumnOf(df, c)))
                      ELSE df.rows[r][c]]],
       !.dtypes = [c \in 1..Len(df.cols) |->
                      IF c \in cs THEN "float64" ELSE df.dtypes[c]]]

\* normalize_data(columns) for the columns arguments that name numeric
\* columns: self.df[columns] = ... changes self.df in place.
normalize_data(columns) ==
    /\ IsCleaner
    /\ InPlace(Normalized(SelfDf, Chosen(SelfDf, columns)))
    /\ Called("normalize_data", <<columns>>, "return", Self)

\* return self.df
get_cleaned_data ==
    /\ IsCleaner
    /\ UNCHANGED <<helper, frames>>
    /\ Called("get_cleaned_data", <<>>, "return", SelfDf)

\* --------------------------------------------------------------------------
\* DataTransformer
\* --------------------------------------------------------------------------

IsTransformer == helper.cls = "DataTransformer"

\* The place where v first stands in xs.
FirstPos(xs, v) ==
    CHOOSE i \in 1..Len(xs) : xs[i] = v /\ \A j \in 1..(i - 1) : xs[j] # v

\* OrdinalEncoder: the values of a column are numbered 1, 2, ... in the order
\* in which they first appear.
Ordinal(xs, v) ==
    Num(Cardinality({FirstPos(xs, xs[j]) : j \in 1..FirstPos(xs, v)}), 1)

\* OrdinalEncoder(cols=columns).fit_transform(df): a new frame in which the
\* listed columns hold the numbers of their values.
RECURSIVE OrdinalEncode(_, _)
OrdinalEncode(df, cs) ==
    IF cs = {} THEN df
    ELSE LET c == CHOOSE x \in cs : TRUE
             xs == ColumnOf(df, c)
         IN OrdinalEncode(
                [df EXCEPT !.rows = [r \in 1..Len(df.rows) |->
                                        [df.rows[r] EXCEPT ![c] = Ordinal(xs, @)]],
                           !.dtypes[c] = "int64"],
                cs \ {c})

\* self.df = encoder.fit_transform(self.df)
encode_labels(columns) ==
    /\ IsTransformer
    /\ Rebind(OrdinalEncode(SelfDf, Selected(SelfDf, columns)))
    /\ Called("encode_labels", <<columns>>, "return", Self)

\* The functions handed to apply_custom_transform: lambda x: -x.
Apply(func, v) == IF IsNull(v) THEN v ELSE Num(-v.num, v.den)

\* self.df[columns] = self.df[columns].apply(func)
apply_custom_transform(columns, func) ==
    /\ IsTransformer
    /\ LET cs == Selected(SelfDf, columns)
       IN InPlace([SelfDf EXCEPT !.rows =
                      [r \in 1..Len(SelfDf.rows) |->
                          [c \in 1..Len(SelfDf.cols) |->
                              IF c \in cs THEN Apply(func, SelfDf.rows[r][c])
                              ELSE SelfDf.rows[r][c]]]])
    /\ Called("apply_custom_transform", <<columns, func>>, "return", Self)

\* return self.df
get_transformed_data ==
    /\ IsTransformer
    /\ UNCHANGED <<helper, frames>>
    /\ Called("get_transformed_data", <<>>, "return", SelfDf)

\* --------------------------------------------------------------------------
\* QuantitativeAnalysis
\* --------------------------------------------------------------------------

IsQuant == helper.cls = "QuantitativeAnalysis"

\* What a routine of scipy or scikit-learn gives: the value is not looked
\* into, only the routine that made it.
Computed(by) == [kind |-> "computed", by |-> by]

\* if test == 't-test' ... else: the t-test for every other name.
TestRunDefaultsToTTest(test) ==
    IF test = "anova"
    THEN [kind |-> "return", val |-> Computed("stats.f_oneway"),
          computed |-> <<"stats.f_oneway">>]
    ELSE [kind |-> "return", val |-> Computed("stats.ttest_ind"),
          computed |-> <<"stats.ttest_ind">>]
\* if test == 't-test' ... elif test == 'anova' ... else: raise ValueError
TestRun(test) ==
    IF test = "t-test"
    THEN [kind |-> "return", val |-> Computed("stats.ttest_ind"),
          computed |-> <<"stats.ttest_ind">>]
    ELSE IF test = "anova"
    THEN [kind |-> "return", val |-> Computed("stats.f_oneway"),
          computed |-> <<"stats.f_oneway">>]
    ELSE [kind |-> "raise", val |-> Error("ValueError", "Unknown test"),
          computed |-> <<>>]

hypothesis_testing(column1, column2, test) ==
    /\ IsQuant
    /\ UNCHANGED <<helper, frames>>
    /\ CalledAfter("hypothesis_testing", <<column1, column2, test>>,
                   TestRun(test).kind, TestRun(test).val, TestRun(test).computed)

\* return self.df
get_quantitative_data ==
    /\ IsQuant
    /\ UNCHANGED <<helper, frames>>
    /\ Called("get_quantitative_data", <<>>, "return", SelfDf)

\* --------------------------------------------------------------------------
\* QualitativeAnalysis
\* --------------------------------------------------------------------------

IsQual == helper.cls = "QualitativeAnalysis"

\* sid.polarity_scores(x)['compound']: the score of a text, not looked into.
Score(text) == [kind |-> "score", of |-> text.s]

\* df[name] = values: the column is replaced when df has it, and added last
\* when not.
SetColumn(df, name, dtype, values) ==
    IF \E c \in 1..Len(df.cols) : df.cols[c] = name
    THEN [df EXCEPT !.rows = [r \in 1..Len(df.rows) |->
                                 [df.rows[r] EXCEPT ![ColIndex(df, name)] = values[r]]],
                    !.dtypes[ColIndex(df, name)] = dtype]
    ELSE [df EXCEPT !.cols = Append(@, name),
                    !.dtypes = Append(@, dtype),
                    !.rows = [r \in 1..Len(df.rows) |-> Append(df.rows[r], values[r])]]

\* self.df['sentiment'] = self.df[text_column].apply(...); return self.df
sentiment_analysis(text_column) ==
    /\ IsQual
    /\ LET xs == ColumnOf(SelfDf, ColIndex(SelfDf, text_column))
           df == SetColumn(SelfDf, "sentiment", "float64",
                           [r \in 1..Len(xs) |-> Score(xs[r])])
       IN /\ InPlace(df)
          /\ CalledAfter("sentiment_analysis", <<text_column>>, "return", df,
                         <<"SentimentIntensityAnalyzer">>)

\* if method == 'tfidf' ... elif method == 'count' ... else: raise ValueError
ExtractRun(method) ==
    IF method = "tfidf"
    THEN [kind |-> "return", val |-> Computed("TfidfVectorizer"),
          computed |-> <<"TfidfVectorizer">>]
    ELSE IF method = "count"
    THEN [kind |-> "return", val |-> Computed("CountVectorizer"),
          computed |-> <<"CountVectorizer">>]
    ELSE [kind |-> "raise", val |-> Error("ValueError", "Unknown method"),
          computed |-> <<>>]

keyword_extraction(text_column, method, top_n) ==
    /\ IsQual
    /\ UNCHANGED <<helper, frames>>
    /\ CalledAfter("keyword_extraction", <<text_column, method, top_n>>,
                   ExtractRun(method).kind, ExtractRun(method).val,
                   ExtractRun(method).computed)

\* return self.df
get_qualitative_data ==
    /\ IsQual
    /\ UNCHANGED <<helper, frames>>
    /\ Called("get_qualitative_data", <<>>, "return", SelfDf)

\* --------------------------------------------------------------------------
\* Configuration documents
\* --------------------------------------------------------------------------

\* The Python values a configuration holds, beside None, Str and List.
PyInt(n) == [kind |-> "int", val |-> n]
PyBool(b) == [kind |-> "bool", val |-> b]
Tuple(xs) == [kind |-> "tuple", items |-> xs]
PySet(xs) == [kind |-> "set", items |-> xs]
\* A dict with str keys, as the function from its keys to their values.
PyDict(m) == [kind |-> "pydict", items |-> m]

EmptyMap == [k \in {} |-> None]

\* d[k] = v
MapSet(m, k, v) == [x \in DOMAIN m \cup {k} |-> IF x = k THEN v ELSE m[x]]

\* What json.dump can encode: None, bool, int, str, list, tuple and dict; a set
\* makes it raise TypeError.
RECURSIVE Encodable(_)
Encodable(v) ==
    CASE v.kind \in {"None", "str", "int", "bool"} -> TRUE
      [] v.kind \in {"list", "tuple"} ->
            \A i \in 1..Len(v.items) : Encodable(v.items[i])
      [] v.kind = "pydict" -> \A k \in DOMAIN v.items : Encodable(v.items[k])
      [] OTHER -> FALSE

\* json.dump(v): the JSON text, by the JSON value it denotes.  A list and a
\* tuple both give an array.
RECURSIVE JsonDump(_)
JsonDump(v) ==
    CASE v.kind = "None" -> [kind |-> "null"]
      [] v.kind = "str" -> [kind |-> "string", val |-> v.val]
      [] v.kind = "int" -> [kind |-> "number", val |-> v.val]
      [] v.kind = "bool" -> [kind |-> IF v.val THEN "true" ELSE "false"]
      [] v.kind \in {"list", "tuple"} ->
            [kind |-> "array",
             items |-> [i \in 1..Len(v.items) |-> JsonDump(v.items[i])]]
      [] v.kind = "pydict" ->
            [kind |-> "object",
             items |-> [k \in DOMAIN v.items |-> JsonDump(v.items[k])]]

\* json.load(f): an array is read as a list, an object as a dict.
RECURSIVE JsonLoad(_)
JsonLoad(j) ==
    CASE j.kind = "null" -> None
      [] j.kind = "string" -> Str(j.val)
      [] j.kind = "number" -> PyInt(j.val)
      [] j.kind \in {"true", "false"} -> PyBool(j.kind = "true")
      [] j.kind = "array" ->
            List([i \in 1..Len(j.items) |-> JsonLoad(j.items[i])])
      [] j.kind = "object" ->
            PyDict([k \in DOMAIN j.items |-> JsonLoad(j.items[k])])

\* What a path holds: no file, a file of JSON text, or a file whose text is
\* not JSON (a write that json.dump left part-way is one).
NoFile == [kind |-> "absent"]
Malformed == [kind |-> "malformed"]
JsonFile(j) == [kind |-> "json", text |-> j]

DefaultConfigFile == "config.json"
ConfigFiles == {DefaultConfigFile, "other.json"}

NoFiles == [p \in ConfigFiles |-> NoFile]

\* --------------------------------------------------------------------------
\* Config
\* --------------------------------------------------------------------------

default_config ==
    PyDict([
        data_ingestion |-> PyDict([
            csv_loader |-> PyDict([db_name |-> Str("plato-broken.db")]),
            crosstab_loader |-> PyDict([db_name |-> Str("plato-broken.db")])]),
        data_transformation |-> PyDict([
            cleaner |-> PyDict([
                missing_value_strategy |-> Str("mean"),
                duplicate_removal |-> PyBool(TRUE)]),
            transformer |-> PyDict([
                label_encoding_columns |-> List(<<>>),
                one_hot_encoding_columns |-> List(<<>>),
                scaling_method |-> Str("minmax"),
                scaling_columns |-> List(<<>>)])]),
        data_analysis |-> PyDict([
            qualitative |-> PyDict([
                sentiment_analysis_column |-> Str("review"),
                wordcloud_column |-> Str("review"),
                keyword_extraction_column |-> Str("review"),
                keyword_extraction_method |-> Str("tfidf"),
                keyword_extraction_top_n |-> PyInt(5)]),
            quantitative |-> PyDict([
                descriptive_statistics_columns |-> List(<<>>),
                correlation_matrix_columns |-> List(<<>>),
                linear_regression_target |-> Str("score"),
                linear_regression_features |-> List(<<Str("age"), Str("income")>>),
                hypothesis_testing_columns |-> List(<<Str("score"), Str("age")>>),
                hypothesis_testing_method |-> Str("t-test"),
                histogram_column |-> Str("income"),
                histogram_bins |-> PyInt(10),
                scatter_plot_columns |-> List(<<Str("age"), Str("score")>>)])]),
        logging |-> PyDict([level |-> Str("INFO")]),
        database |-> PyDict([
            name |-> Str("plato-broken.db"),
            path |-> Str("./database/")])])

\* Path(self.config_file).is_file()
IsFile(fs, config_file) == fs[config_file].kind # "absent"

\* save_config: open(..., 'w') empties the file and json.dump writes into it;
\* when json.dump raises, the file is left with the text written so far.
SaveConfigRaises(config_data) == ~Encodable(config_data)
SaveConfig(fs, config_file, config_data) ==
    [fs EXCEPT ![config_file] =
        IF Encodable(config_data) THEN JsonFile(JsonDump(config_data))
        ELSE Malformed]

\* load_config takes the default document whatever the path holds.
LoadConfigAlwaysDefault(fs, config_file) ==
    [kind |-> "return", data |-> default_config,
     fs |-> SaveConfig(fs, config_file, default_config)]
\* load_config: what it returns or that it raises, and the files after it.
LoadConfig(fs, config_file) ==
    IF IsFile(fs, config_file)
    THEN IF fs[config_file].kind = "json"
         THEN [kind |-> "return", data |-> JsonLoad(fs[config_file].text), fs |-> fs]
         ELSE [kind |-> "raise", data |-> Error("JSONDecodeError", ""), fs |-> fs]
    ELSE [kind |-> "return", data |-> default_config,
          fs |-> SaveConfig(fs, config_file, default_config)]

\* The outcome of a Config call, with the files and the object it found.
COutcome(op, args, kind, val, fs, obj) ==
    [op |-> op, args |-> args, kind |-> kind, val |-> val, fs |-> fs, obj |-> obj]

ConfigObject(config_file, config_data) ==
    [config_file |-> config_file, config_data |-> config_data]

\* Config(config_file): a constructor that raises leaves no new object.
config_init(config_file) ==
    LET r == LoadConfig(files, config_file)
    IN /\ files' = r.fs
       /\ config' = IF r.kind = "return" THEN ConfigObject(config_file, r.data)
                    ELSE config
       /\ cret' = COutcome("__init__", [config_file |-> config_file], r.kind,
                           IF r.kind = "return" THEN None ELSE r.data, files, config)

\* self.config_data.get(section, {})
SectionOf(config_data, section) ==
    IF config_data.kind = "pydict" /\ section \in DOMAIN config_data.items
    THEN config_data.items[section]
    ELSE PyDict(EmptyMap)

\* .get(...) on a value that is no dict raises AttributeError.
GetRaises(config_data, section) ==
    config_data.kind # "pydict" \/ SectionOf(config_data, section).kind # "pydict"

\* self.config_data.get(section, {}).get(key, default)
GetValue(config_data, section, key, default) ==
    LET sec == SectionOf(config_data, section)
    IN IF key \in DOMAIN sec.items THEN sec.items[key] ELSE default

get(section, key, default) ==
    /\ cret' = IF GetRaises(config.config_data, section)
               THEN COutcome("get", [section |-> section, key |-> key, default |-> default], "raise",
                             Error("AttributeError", ""), files, config)
               ELSE COutcome("get", [section |-> section, key |-> key, default |-> default], "return",
                             GetValue(config.config_data, section, key, default),
                             files, config)
    /\ UNCHANGED <<files, config>>

\* self.config_data[section][key] = value on a section that is no dict raises
\* TypeError before anything is changed.
SetRaises(config_data, section) ==
    section \in DOMAIN config_data.items /\ config_data.items[section].kind # "pydict"

\* if section not in self.config_data: self.config_data[section] = {}
\* self.config_data[section][key] = value
SetData(config_data, section, key, value) ==
    LET sec == SectionOf(config_data, section)
    IN PyDict(MapSet(config_data.items, section, PyDict(MapSet(sec.items, key, value))))

set(section, key, value) ==
    IF SetRaises(config.config_data, section)
    THEN /\ cret' = COutcome("set", [section |-> section, key |-> key, value |-> value], "raise",
                             Error("TypeError", ""), files, config)
         /\ UNCHANGED <<files, config>>
    ELSE LET data == SetData(config.config_data, section, key, value)
         IN /\ config' = ConfigObject(config.config_file, data)
            /\ files' = SaveConfig(files, config.config_file, data)
            /\ cret' = IF SaveConfigRaises(data)
                       THEN COutcome("set", [section |-> section, key |-> key, value |-> value], "raise",
                                     Error("TypeError", ""), files, config)
                       ELSE COutcome("set", [section |-> section, key |-> key, value |-> value], "return",
                                     None, files, config)

\* The state Config(config_file) leaves when the files are fs and the
\* constructor returns.
InitConfig(fs, config_file) ==
    LET r == LoadConfig(fs, config_file)
    IN /\ r.kind = "return"
       /\ files = r.fs
       /\ config = ConfigObject(config_file, r.data)
       /\ cret = COutcome("__init__", [config_file |-> config_file], "return", None, fs, None)

\* --------------------------------------------------------------------------
\* Core
\* --------------------------------------------------------------------------

\* self.db_path = 'data.db'
CoreDbPath == "data.db"
DbPaths == {CoreDbPath, "other.db"}

\* The table the calls on Core name.
CoreTable == "t"

\* save_path='generated_data.csv'
DefaultSavePath == "generated_data.csv"

\* self.config.get("data_generation", "num_rows", 1000)
DefaultNumRows == 1000

NoStore == [t \in {CoreTable} |-> NoTable]

\* column.get('options', {}) as the options dict _generate_column_data reads.
OptionsOf(column) ==
    LET o == IF "options" \in DOMAIN column.items THEN column.items.options.items
             ELSE EmptyMap
    IN Options(IF "min" \in DOMAIN o THEN Some(o.min.val) ELSE None,
               IF "max" \in DOMAIN o THEN Some(o.max.val) ELSE None,
               None)

\* for column in columns: generator.add_column(column['name'],
\*     column['data_type'], column.get('options', {}))
RECURSIVE AddColumns(_, _)
AddColumns(items, columns) ==
    IF columns = <<>> THEN items
    ELSE LET c == Head(columns)
         IN AddColumns(DictSet(items, c.items.name.val,
                               Column(c.items.name.val, c.items.data_type.val,
                                      OptionsOf(c))),
                       Tail(columns))

\* The outcome of a Core call, with the object, the stores and the output
\* files it found.
KOutcome(op, args, kind, val) ==
    [op |-> op, args |-> args, kind |-> kind, val |-> val,
     core |-> core, stores |-> stores, outputs |-> outputs]

\* num_rows and columns as generate_data uses them: an argument that is None
\* is read from the configuration.
NumRowsUsed(n) ==
    IF n # None THEN n
    ELSE GetValue(config.config_data, "data_generation", "num_rows", PyInt(DefaultNumRows))
\* columns read with an empty list for a default.
ColumnsUsedOrEmpty(columns) ==
    IF columns # None THEN columns
    ELSE GetValue(config.config_data, "data_generation", "columns", List(<<>>))
ColumnsUsed(columns) ==
    IF columns # None THEN columns
    ELSE GetValue(config.config_data, "data_generation", "columns", None)

\* generate_data raises before it builds a generator: a configuration
\* section that is no dict, or no columns given and none configured.
GenerateDataRaises(n, columns) ==
    IF (n = None \/ columns = None) /\ GetRaises(config.config_data, "data_generation")
    THEN Error("AttributeError", "")
    ELSE IF ColumnsUsed(columns) = None
    THEN Error("ValueError", "Columns configuration is missing.")
    ELSE None

\* self.dataframe.to_csv(save_path, index=False): the columns and the rows.
ToCsv(df) == [cols |-> df.cols, rows |-> df.rows]

generate_data(n, columns, save_path) ==
    LET args == [num_rows |-> n, columns |-> columns, save_path |-> save_path]
        early == GenerateDataRaises(n, columns)
    IN IF early # None
       THEN /\ kret' = KOutcome("generate_data", args, "raise", early)
            /\ UNCHANGED <<core, stores, outputs>>
       ELSE LET rows == NumRowsUsed(n).val
                cols == AddColumns(<<>>, ColumnsUsed(columns).items)
                e == FirstError(cols, rows)
            IN /\ cols = <<>> \/ rows <= MaxRows
               /\ IF e # None
                  THEN /\ kret' = KOutcome("generate_data", args, "raise", e)
                       /\ UNCHANGED <<core, stores, outputs>>
                  ELSE \E lists \in ColumnLists(cols, rows) :
                         LET df == FrameOfDict([i \in 1..Len(cols) |-> cols[i].name], lists)
                         IN /\ core' = [core EXCEPT !.dataframe = df]
                            /\ outputs' = [outputs EXCEPT ![save_path] = ToCsv(df)]
                            /\ kret' = KOutcome("generate_data", args, "return", df)
                            /\ UNCHANGED stores

\* handler.save_dataframe_to_db(self.dataframe, table_name) on a handler of
\* db_path: with no dataframe, None.to_sql raises inside the handler's try,
\* which logs it; a to_sql that fails is logged the same way.
save_to_sqlite(db_path, table_name) ==
    LET old == stores[db_path][table_name]
    IN /\ \E ok \in BOOLEAN : \E left \in AfterFailedSave(old) :
            stores' = [stores EXCEPT ![db_path][table_name] =
                          IF core.dataframe = None THEN old
                          ELSE IF ok THEN ToSql(old, core.dataframe) ELSE left]
       /\ kret' = KOutcome("save_to_sqlite",
                           [db_path |-> db_path, table_name |-> table_name],
                           "return", None)
       /\ UNCHANGED <<core, outputs>>

\* handler.execute_query(query) on one store: what it returns and how it
\* leaves the store.  Every exception is logged and None is returned.
ExecuteQueryOn(store, q) ==
    IF q.kind = "malformed" \/ ~store[q.table].exists
    THEN {[val |-> None, store |-> store]}
    ELSE IF q.kind = "select"
    THEN {[val |-> RowList(store[q.table].rows), store |-> store]}
    ELSE {[val |-> None, store |-> store],
          [val |-> None, store |-> [store EXCEPT ![q.table] = NoTable]]}

\* The handler is made for the store that is not self.db_path.
QueryStoreOther(c) == CHOOSE p \in DbPaths : p # c.db_path
\* handler = SQLiteHandler(self.db_path)
QueryStore(c) == c.db_path

\* query_data: the handler is made for self.db_path; create_connection() is
\* outside any try.
query_data(q) ==
    \E connects \in BOOLEAN :
        IF ~connects
        THEN /\ kret' = KOutcome("query_data", [query |-> q], "raise",
                                 Error("OperationalError", ""))
             /\ UNCHANGED <<core, stores, outputs>>
        ELSE \E r \in ExecuteQueryOn(stores[QueryStore(core)], q) :
                /\ stores' = [stores EXCEPT ![QueryStore(core)] = r.store]
                /\ kret' = KOutcome("query_data", [query |-> q], "return", r.val)
                /\ UNCHANGED <<core, outputs>>

\* Core(): self.config is the Config object; no dataframe, the store
\* 'data.db', no output file.
InitCore ==
    /\ core = [dataframe |-> None, db_path |-> CoreDbPath,
               table_name |-> "generated_data"]
    /\ stores = [p \in DbPaths |-> NoStore]
    /\ outputs = [p \in {DefaultSavePath} |-> None]
    /\ kret = [op |-> "__init__", args |-> None, kind |-> "return", val |-> None,
               core |-> None, stores |-> None, outputs |-> None]

\* --------------------------------------------------------------------------
\* Specifications
\* --------------------------------------------------------------------------

vars == <<qbVars, dbVars, ldVars, xtVars, genVars, hpVars, cfVars, coVars>>

\* A QueryBuilder or an SQLiteHandler used on its own, beside a CSVLoader()
\* that is never called.
Init ==
    /\ InitQB /\ InitDB /\ InitLoader(DefaultChunkSize, 1) /\ InitCrosstab
    /\ InitGenerator(0)
    /\ InitHelper("DataCleaner", FrameACD)
    /\ InitConfig(NoFiles, DefaultConfigFile) /\ InitCore

NextQB == Select \/ FromTable \/ Where \/ GroupBy \/ Having \/ OrderBy \/ Build

SpecQB == Init /\ [][NextQB]_vars

NextDB == SaveDataframeToDb \/ ExecuteQuery \/ LoadTableToDataframe

SpecDB == Init /\ [][NextDB]_vars

\* A CSVLoader(chunk_size=size) on a host of cpu_count() = workers cores.
InitLoad ==
    /\ InitQB
    /\ InitDB
    /\ \E size \in 1..MaxChunkSize, workers \in 1..MaxCpu : InitLoader(size, workers)
    /\ InitCrosstab
    /\ InitGenerator(0)
    /\ InitHelper("DataCleaner", FrameACD)
    /\ InitConfig(NoFiles, DefaultConfigFile) /\ InitCore

TableNameArgs == {None} \cup {Some(t) : t \in TableNames}

\* The file_paths of the load_multiple_csvs calls: both files in either
\* order, a missing file before and after a file, and one file alone.
FilePathLists ==
    { <<PathA, PathB>>, <<PathB, PathA>>, <<PathGone, PathA>>, <<PathA, PathGone>>,
      <<PathB>> }

\* Their table_names: none, one table for both files, a table per file, and
\* a list of one name.
TableNameLists ==
    { None, List(<<"t", "t">>), List(<<"t", "f1">>), List(<<"t">>) }

CallLoadCsv ==
    (\E f \in Paths, t \in TableNameArgs, s \in BOOLEAN : call_load_csv(f, t, s))
        /\ UNCHANGED NotLoader
ReturnLoadCsv == return_load_csv /\ UNCHANGED NotLoader
CallLoadMultipleCsvs ==
    (\E fs \in FilePathLists, ts \in TableNameLists, s \in BOOLEAN :
        call_load_multiple_csvs(fs, ts, s, FALSE))
        /\ UNCHANGED NotLoader
Submit == submit /\ UNCHANGED NotLoader
Collect == collect /\ UNCHANGED NotLoader
Start == (\E i \in 1..Len(tasks) : start(i)) /\ UNCHANGED NotLoader
LoadCsvRead == (\E i \in 1..Len(tasks) : load_csv_read(i)) /\ UNCHANGED NotLoader
LoadCsvOpen == (\E i \in 1..Len(tasks) : load_csv_open(i)) /\ UNCHANGED NotLoader
LoadCsvSaveChunk ==
    (\E i \in 1..Len(tasks) : load_csv_save_chunk(i)) /\ UNCHANGED NotLoader

NextLoad ==
    \/ CallLoadCsv \/ ReturnLoadCsv
    \/ CallLoadMultipleCsvs \/ Submit \/ Collect
    \/ Start \/ LoadCsvRead \/ LoadCsvOpen \/ LoadCsvSaveChunk

SpecLoad == InitLoad /\ [][NextLoad]_vars

\* load_multiple_csvs called again and again on two files that go to one
\* table, with save_to_db true.
SameTableFilePaths == { <<PathA, PathB>>, <<PathB, PathA>> }

SameTableNames == { None, List(<<"t", "t">>) }

CallLoadMultipleCsvsAgain ==
    (\E fs \in SameTableFilePaths, ts \in SameTableNames :
        call_load_multiple_csvs(fs, ts, TRUE, TRUE))
        /\ UNCHANGED NotLoader

NextRace ==
    \/ CallLoadMultipleCsvsAgain \/ Submit \/ Collect
    \/ Start \/ LoadCsvOpen \/ LoadCsvSaveChunk

SpecRace == InitLoad /\ [][NextRace]_vars

\* A CrosstabLoader called again and again on the workbooks.
LoadCrosstab ==
    (\E f \in Books, sn \in TableNameArgs, t \in TableNameArgs, s \in BOOLEAN :
        load_crosstab(f, sn, t, s))
        /\ UNCHANGED NotCrosstab
LoadCrosstabToDb ==
    (\E f \in Books, sn \in TableNameArgs, t \in TableNameArgs :
        load_crosstab_to_db(f, sn, t))
        /\ UNCHANGED NotCrosstab

NextCrosstab == LoadCrosstab \/ LoadCrosstabToDb

SpecCrosstab == Init /\ [][NextCrosstab]_vars

\* A DataGenerator(num_rows) given columns and asked to generate.
InitGenerate ==
    /\ InitQB /\ InitDB /\ InitLoader(DefaultChunkSize, 1) /\ InitCrosstab
    /\ \E n \in 0..MaxRows : InitGenerator(n)
    /\ InitHelper("DataCleaner", FrameACD)
    /\ InitConfig(NoFiles, DefaultConfigFile) /\ InitCore

ColumnNames == {"c1", "c2"}

\* The column specifications: integers with one bound or both given, and with
\* an empty range; categories by default, given, and given empty; a coin, a
\* word, and a type the generator does not know.
ColumnSpecs ==
    { <<"int", Options(None, Some(1), None)>>,
      <<"int", Options(Some(99), None, None)>>,
      <<"int", Options(Some(2), Some(1), None)>>,
      <<"category", None>>,
      <<"category", Options(None, None, Some(<<"D">>))>>,
      <<"category", Options(None, None, Some(<<>>))>>,
      <<"bool", None>>,
      <<"str", None>>,
      <<"uuid", None>> }

AddColumn ==
    (\E name \in ColumnNames, sp \in ColumnSpecs : add_column(name, sp[1], sp[2]))
        /\ UNCHANGED NotGenerator
Generate == generate /\ UNCHANGED NotGenerator

NextGenerate == AddColumn \/ Generate

SpecGenerate == InitGenerate /\ [][NextGenerate]_vars

\* A helper built on one of the datasets and called again and again.
HelperClasses ==
    {"DataCleaner", "DataTransformer", "QuantitativeAnalysis", "QualitativeAnalysis"}


\* The columns / subset arguments: None, or a list of one column of self.df.
ColumnArgs == {None} \cup {List(<<SelfDf.cols[c]>>) : c \in 1..Len(SelfDf.cols)}

\* The strategies: the two averages and two literals.
Strategies == {Text("mean"), Text("median"), Num(0, 1), Text("x")}

RemoveDuplicates ==
    (\E subset \in ColumnArgs, keep \in {"first", "last", "False"} :
        remove_duplicates(subset, keep))
        /\ UNCHANGED NotHelper
FillMissingValues ==
    (\E st \in Strategies, cs \in ColumnArgs : fill_missing_values(st, cs))
        /\ UNCHANGED NotHelper
DropMissingValues ==
    (\E cs \in ColumnArgs, how \in {"any", "all"} : drop_missing_values(cs, how))
        /\ UNCHANGED NotHelper
GetCleanedData == get_cleaned_data /\ UNCHANGED NotHelper

\* The columns of self.df that hold text and nothing missing, and those that
\* hold numbers.
TextColumns ==
    {c \in 1..Len(SelfDf.cols) :
        SelfDf.dtypes[c] = "object" /\ \A r \in 1..Len(SelfDf.rows) : ~IsNull(SelfDf.rows[r][c])}

NumericColumns == {c \in 1..Len(SelfDf.cols) : IsNumericDtype(SelfDf, c)}

\* The test and method names: the known ones, and one that is not.
TestNames == {"t-test", "anova", "invalid_test"}

MethodNames == {"tfidf", "count", "lda"}

\* keyword_extraction(top_n=10)
DefaultTopN == 10

EncodeLabels ==
    (\E c \in TextColumns : encode_labels(List(<<SelfDf.cols[c]>>)))
        /\ UNCHANGED NotHelper
ApplyCustomTransform ==
    (\E c \in NumericColumns : apply_custom_transform(List(<<SelfDf.cols[c]>>), "neg"))
        /\ UNCHANGED NotHelper
GetTransformedData == get_transformed_data /\ UNCHANGED NotHelper
HypothesisTesting ==
    (\E c1, c2 \in NumericColumns, test \in TestNames :
        hypothesis_testing(SelfDf.cols[c1], SelfDf.cols[c2], test))
        /\ UNCHANGED NotHelper
GetQuantitativeData == get_quantitative_data /\ UNCHANGED NotHelper
SentimentAnalysis ==
    (\E c \in TextColumns : sentiment_analysis(SelfDf.cols[c]))
        /\ UNCHANGED NotHelper
KeywordExtraction ==
    (\E c \in 1..Len(SelfDf.cols), method \in MethodNames :
        (c \in TextColumns \/ method = "lda")
            /\ keyword_extraction(SelfDf.cols[c], method, DefaultTopN))
        /\ UNCHANGED NotHelper
GetQualitativeData == get_qualitative_data /\ UNCHANGED NotHelper

\* The columns arguments that name numeric columns: None, a list of one, the
\* list of all of them, and a single name.
NumericColumnArgs ==
    LET ps == PosSeq(Len(SelfDf.cols), NumericPlaces(SelfDf))
    IN {None, List([k \in 1..Len(ps) |-> SelfDf.cols[ps[k]]])}
          \cup {List(<<SelfDf.cols[c]>>) : c \in NumericPlaces(SelfDf)}
          \cup {Text(SelfDf.cols[c]) : c \in NumericPlaces(SelfDf)}

OutlierMethods == {"IQR", "MAD"}
Factors == {Num(3, 2), Num(0, 1)}

RemoveOutliers ==
    (\E columns \in NumericColumnArgs, method \in OutlierMethods, factor \in Factors :
        remove_outliers(columns, method, factor))
        /\ UNCHANGED NotHelper
NormalizeData ==
    (\E columns \in NumericColumnArgs : normalize_data(columns)) /\ UNCHANGED NotHelper

\* A DataCleaner asked to remove outliers and to normalize, on the datasets
\* above and on one with outlying values.
InitCleaner ==
    /\ InitQB /\ InitDB /\ InitLoader(DefaultChunkSize, 1) /\ InitCrosstab
    /\ InitGenerator(0)
    /\ \E df \in Datasets \cup {FramePQ} : InitHelper("DataCleaner", df)
    /\ InitConfig(NoFiles, DefaultConfigFile) /\ InitCore

NextCleaner == RemoveOutliers \/ NormalizeData \/ GetCleanedData

SpecCleaner == InitCleaner /\ [][NextCleaner]_vars

NextHelper ==
    \/ RemoveDuplicates \/ FillMissingValues \/ DropMissingValues \/ GetCleanedData
    \/ EncodeLabels \/ ApplyCustomTransform \/ GetTransformedData
    \/ HypothesisTesting \/ GetQuantitativeData
    \/ SentimentAnalysis \/ KeywordExtraction \/ GetQualitativeData

InitHelpers ==
    /\ InitQB /\ InitDB /\ InitLoader(DefaultChunkSize, 1) /\ InitCrosstab
    /\ InitGenerator(0)
    /\ \E cls \in HelperClasses, df \in Datasets : InitHelper(cls, df)
    /\ InitConfig(NoFiles, DefaultConfigFile) /\ InitCore

SpecHelper == InitHelpers /\ [][NextHelper]_vars

\* A configuration file of the user's: logging is given as a plain string,
\* and data generation is configured.
CustomConfig ==
    PyDict([
        logging |-> Str("INFO"),
        data_generation |-> PyDict([
            num_rows |-> PyInt(1),
            columns |-> List(<<PyDict([name |-> Str("c"),
                                       data_type |-> Str("int"),
                                       options |-> PyDict([min |-> PyInt(7),
                                                           max |-> PyInt(7)])])>>)])])

FileContents ==
    {NoFile, Malformed, JsonFile(JsonDump(default_config)),
     JsonFile(JsonDump(CustomConfig))}

\* Config() on the files as they are at the start.
InitConfigs ==
    /\ InitQB /\ InitDB /\ InitLoader(DefaultChunkSize, 1) /\ InitCrosstab
    /\ InitGenerator(0)
    /\ InitHelper("DataCleaner", FrameACD)
    /\ \E fs \in [ConfigFiles -> FileContents] : InitConfig(fs, DefaultConfigFile)
    /\ InitCore

Sections == {"logging", "data_generation"}
Keys == {"level"}
Defaults == {None, Str("d")}
SetValues == {Str("DEBUG"), Tuple(<<Str("a")>>), PySet({"a"})}

NewConfig == (\E p \in ConfigFiles : config_init(p)) /\ UNCHANGED NotConfig
ConfigGet ==
    (\E s \in Sections, k \in Keys, d \in Defaults : get(s, k, d))
        /\ UNCHANGED NotConfig
ConfigSet ==
    (\E s \in Sections, k \in Keys, v \in SetValues : set(s, k, v))
        /\ UNCHANGED NotConfig

NextConfig == NewConfig \/ ConfigGet \/ ConfigSet

SpecConfig == InitConfigs /\ [][NextConfig]_vars

\* Core() beside a configuration file that is missing, holds the default
\* document, or is the user's.
InitCores ==
    /\ InitQB /\ InitDB /\ InitLoader(DefaultChunkSize, 1) /\ InitCrosstab
    /\ InitGenerator(0)
    /\ InitHelper("DataCleaner", FrameACD)
    /\ \E c \in FileContents :
          InitConfig([NoFiles EXCEPT ![DefaultConfigFile] = c], DefaultConfigFile)
    /\ InitCore

NumRowsArgs == {None} \cup {PyInt(n) : n \in 1..MaxRows}
CoreColumnArgs ==
    {None, List(<<>>),
     List(<<PyDict([name |-> Str("c1"), data_type |-> Str("int"),
                    options |-> PyDict([min |-> PyInt(1), max |-> PyInt(1)])])>>),
     List(<<PyDict([name |-> Str("c1"), data_type |-> Str("complex")])>>)}

GenerateData ==
    (\E n \in NumRowsArgs, c \in CoreColumnArgs : generate_data(n, c, DefaultSavePath))
        /\ UNCHANGED NotCore
SaveToSqlite ==
    (\E p \in DbPaths : save_to_sqlite(p, CoreTable)) /\ UNCHANGED NotCore
QueryData ==
    (\E q \in {x \in Queries : x.table = CoreTable} : query_data(q))
        /\ UNCHANGED NotCore

NextCore == GenerateData \/ SaveToSqlite \/ QueryData

SpecCore == InitCores /\ [][NextCore]_vars

\* --------------------------------------------------------------------------
\* Properties of QueryBuilder
\* --------------------------------------------------------------------------

RECURSIVE Concat(_)
Concat(h) == IF h = <<>> THEN <<>> ELSE h[1].frag \o Concat(Tail(h))

\* The buffer the clause calls of h leave, starting from the empty buffer.
RECURSIVE Replay(_, _)
Replay(buf, h) ==
    IF h = <<>> THEN buf
    ELSE Replay(IF h[1].op = "select" THEN SelectBuf(buf, h[1].frag)
                                       ELSE AppendBuf(buf, h[1].frag),
                Tail(h))

\* A fragment whose caller-supplied text is not empty and has no blank at
\* either end: joined by the fragments' own trailing blanks, such fragments
\* are separated by exactly one blank.
SingleSpaced(frag) ==
    /\ \A i \in 1..(Len(frag) - 1) : ~(IsSpace(frag[i]) /\ IsSpace(frag[i + 1]))
    /\ ~IsSpace(frag[1])

Built == qret.kind = "str"

\* C1: build() returns the fragments of all the clause calls made since the
\* previous build, select included, concatenated in call order and separated
\* by single blanks, with no blank at either end.
C1_BuildConcatenatesAllCalls ==
    (Built /\ \A i \in 1..Len(calls) : SingleSpaced(calls[i].frag))
        => qret.val = strip(Concat(calls))

\* C2: after every build() the buffer is empty, and the string build()
\* returned is the one the clause calls made since the previous build produce
\* from an empty buffer: nothing of an earlier build is left in it, and no
\* clause call since the previous build gives the empty string.
C2_BuildResetsBuffer ==
    Built =>
        /\ query = <<>>
        /\ qret.val = strip(Replay(<<>>, calls))
        /\ (calls = <<>> => qret.val = <<>>)

\* A second build() whose clause calls differ from nothing: the first build
\* returned, calls were made, build() returned again.
C2_Witness_SecondBuild ==
    /\ Built
    /\ builds = "many"
    /\ Len(calls) = 2
    /\ qret.val # <<>>

\* --------------------------------------------------------------------------
\* Properties of SQLiteHandler
\* --------------------------------------------------------------------------

\* C4: load_table_to_dataframe(t) returns the dataset most recently saved
\* under t, with the same columns and the same rows in the same order,
\* whatever the table held before that save.
C4_LoadReturnsLastSave ==
    (/\ hret.op = "load_table_to_dataframe"
     /\ hret.raisedIn = ""
     /\ lastSave[hret.arg].state = "ok")
        => /\ hret.val.kind = "DataFrame"
           /\ hret.val.cols = lastSave[hret.arg].df.cols
           /\ hret.val.rows = lastSave[hret.arg].df.rows

\* A load of a table that was saved over an existing table of other columns.
C4_Witness_LoadAfterReplace ==
    /\ hret.op = "load_table_to_dataframe"
    /\ hret.raisedIn = ""
    /\ lastSave[hret.arg].state = "ok"
    /\ lastSave[hret.arg].replaced
    /\ hret.val.kind = "DataFrame"
    /\ hret.val.cols = <<"A", "B">>

C6_LoadNeverRaises ==
    [][hret'.op = "load_table_to_dataframe" =>
          /\ hret'.kind = "return"
          /\ (~db[hret'.arg].exists \/ hret'.raisedIn # "") => hret'.val = None
          /\ db' = db]_vars

\* A load of a missing table from a store that holds another table.
C6_Witness_MissingTable ==
    /\ hret.op = "load_table_to_dataframe"
    /\ ~db[hret.arg].exists
    /\ hret.val = None
    /\ \E t \in TableNames : db[t].exists

\* --------------------------------------------------------------------------
\* Properties of CSVLoader
\* --------------------------------------------------------------------------

WholeFile(file_path) ==
    [exists |-> TRUE, cols |-> FileCols(file_path), rows |-> FileRows(file_path)]

DirectCallOver == caller.op = "load_csv" /\ caller.pc \in {"returned", "raised"}

\* C3: after load_csv(save_to_db=True) returns, none of its chunk writes
\* having raised, the table holds the rows of all the chunks in file order:
\* the rows of the whole file.
C3_TableHoldsWholeFile ==
    (/\ DirectCallOver
     /\ caller.pc = "returned"
     /\ caller.save_to_db
     /\ ~tasks[1].failed)
        => db[TableOf(tasks[1])] = WholeFile(tasks[1].file_path)

\* C7: when a step of load_csv failed (the read, or a chunk write), load_csv
\* raised to its caller: it did not return normally.
C7_FailedStepRaises ==
    (DirectCallOver /\ tasks[1].failed) => caller.pc = "raised"

MultiCall == caller.op = "load_multiple_csvs"

\* What loading one file returns.
LoadResult(file_path, save_to_db) == IF save_to_db THEN None ELSE ReadCsv(file_path)

\* C8: the list load_multiple_csvs returns has one result per file path, the
\* i-th being the result of loading the i-th file, in whatever order the
\* loads finished.
C8_ResultsInSubmissionOrder ==
    (MultiCall /\ caller.pc = "returned") =>
        /\ caller.val.kind = "list"
        /\ Len(caller.val.items) = Len(caller.file_paths)
        /\ \A i \in 1..Len(caller.file_paths) :
              caller.val.items[i] = LoadResult(caller.file_paths[i], caller.save_to_db)

\* Two files were read and returned, the second load finishing first.
C8_Witness_SecondFinishedFirst ==
    /\ MultiCall
    /\ caller.pc = "returned"
    /\ ~caller.save_to_db
    /\ Len(tasks) = 2
    /\ tasks[2].rank < tasks[1].rank
    /\ caller.val.items[1] # caller.val.items[2]

\* C9: once every load is submitted, control is back with the caller of
\* load_multiple_csvs, by a return or by an exception, only when no load is
\* queued or running any more.
C9_CallerWaitsForAllTasks ==
    (/\ MultiCall
     /\ caller.pc \in {"returned", "raised"}
     /\ Len(tasks) = Len(caller.file_paths))
        => AllDone

LastChunk(file_path) ==
    ChunkOf(file_path, chunk_size, NumChunks(file_path, chunk_size))

SameTableCallOver == caller.pc = "returned" /\ SameTableLoads(caller, tasks)

\* C10: two loads of one load_multiple_csvs call that write the same table
\* race: the table ends as the last chunk of one of the two files, and which
\* of the two is the scheduling's choice, not the inputs'.
C10_TableIsSomeLastChunk ==
    SameTableCallOver =>
        \E i \in 1..2 : db[TableOf(tasks[1])] = ToSql(NoTable, LastChunk(tasks[i].file_path))

\* The same call made twice, no write failing, left the table with different
\* rows.
C10_Witness_SameCallOtherTable ==
    /\ SameTableCallOver
    /\ prev.valid
    /\ prev.file_paths = caller.file_paths
    /\ prev.table_names = caller.table_names
    /\ prev.table # db[TableOf(tasks[1])]

\* --------------------------------------------------------------------------
\* Properties of CrosstabLoader
\* --------------------------------------------------------------------------

\* A call that loaded every sheet of a workbook of two or more sheets with
\* save_to_db true and no table name, and none of whose writes failed.
AllSheetsSaved ==
    /\ xret.op \in {"load_crosstab", "load_crosstab_to_db"}
    /\ xret.kind = "return"
    /\ xret.sheet_name = None /\ xret.table_name = None /\ xret.save_to_db
    /\ Len(SheetsOf(xret.file_path)) >= 2
    /\ xret.wrote

\* C11: load_crosstab with no sheet name, save_to_db true and no table name
\* persists every sheet of a workbook of two or more sheets as its own
\* table: the table named after each sheet holds that sheet's dataset.
C11_EverySheetOwnTable ==
    AllSheetsSaved =>
        \A i \in 1..Len(SheetsOf(xret.file_path)) :
            LET sh == SheetsOf(xret.file_path)[i]
            IN /\ db[sh.name].exists
               /\ db[sh.name].cols = sh.df.cols
               /\ db[sh.name].rows = sh.df.rows

\* --------------------------------------------------------------------------
\* Properties of DataGenerator
\* --------------------------------------------------------------------------

Generated == gret.op = "generate"

AllSupported == \A i \in 1..Len(gen_columns) : gen_columns[i].data_type \in SupportedTypes

\* The values a column specification declares.
Declares(col, v) ==
    IF col.data_type = "category"
    THEN IF col.options.categories = None
         THEN v \in {"A", "B", "C"}
         ELSE \E k \in 1..Len(col.options.categories.v) : v = col.options.categories.v[k]
    ELSE IF col.data_type = "int"
    THEN /\ v \in Int
         /\ Get(col.options, "min", 0) <= v
         /\ v <= Get(col.options, "max", 100)
    ELSE IF col.data_type = "bool" THEN v \in BOOLEAN
    ELSE TRUE

\* A specification that declares no value at all.
DeclaresNothing(col) ==
    \/ col.data_type = "category" /\ col.options.categories = Some(<<>>)
    \/ /\ col.data_type = "int"
       /\ Get(col.options, "min", 0) > Get(col.options, "max", 100)

\* generate() returned a dataset of the registered columns, each of num_rows
\* values of its declared domain.
ReturnsDeclaredDataset ==
    /\ gret.kind = "return"
    /\ gret.val.kind = "DataFrame"
    /\ gret.val.cols = [i \in 1..Len(gen_columns) |-> gen_columns[i].name]
    /\ gen_columns # <<>> => Len(gret.val.rows) = num_rows
    /\ \A r \in 1..Len(gret.val.rows) :
          /\ Len(gret.val.rows[r]) = Len(gen_columns)
          /\ \A c \in 1..Len(gen_columns) : Declares(gen_columns[c], gret.val.rows[r][c])

\* C12 as stated: for any num_rows >= 0 and any column specifications of
\* supported types, generate() returns a dataset whose every column has
\* num_rows values, each in the domain its specification declares.
C12_GenerateReturnsDeclaredDataset ==
    (Generated /\ AllSupported) => ReturnsDeclaredDataset

\* C12 amended: the same, for specifications that declare at least one value
\* each, or for num_rows = 0; a specification with an empty category list or
\* with min > max makes generate() raise as soon as a row is asked for.
C12_GenerateReturnsDeclaredDatasetWhenSatisfiable ==
    (/\ Generated
     /\ AllSupported
     /\ num_rows = 0 \/ \A i \in 1..Len(gen_columns) : ~DeclaresNothing(gen_columns[i]))
        => ReturnsDeclaredDataset

\* Two columns, a default category and a bounded integer, of two or more
\* rows that differ.
C12_Witness_TwoColumnsGenerated ==
    /\ Generated
    /\ gret.kind = "return"
    /\ num_rows >= 2
    /\ Len(gen_columns) = 2
    /\ gen_columns[1].data_type = "category" /\ gen_columns[1].options = EmptyDict
    /\ gen_columns[2].data_type = "int"
    /\ gret.val.rows[1] = <<"C", 100>>
    /\ gret.val.rows[2] = <<"A", 99>>

\* The place of the first registered column of a type outside the supported
\* set.
FirstUnsupported ==
    CHOOSE i \in 1..Len(gen_columns) :
        /\ gen_columns[i].data_type \notin SupportedTypes
        /\ \A j \in 1..(i - 1) : gen_columns[j].data_type \in SupportedTypes

\* C13 as stated: whenever a registered column has a type outside the
\* supported set, in whatever position, generate() raises ValueError and
\* returns no dataset.
C13_UnsupportedTypeRaisesValueError ==
    (Generated /\ ~AllSupported)
        => gret.kind = "raise" /\ gret.val.type = "ValueError"

\* C13 amended: whenever a registered column has a type outside the supported
\* set, in whatever position, generate() raises and returns no dataset; the
\* error is the unsupported-type ValueError when every column registered
\* before that one declares at least one value, or when num_rows = 0.  A
\* column before it with an empty category list or with min > max raises
\* its own error first.
C13_UnsupportedTypeRaises ==
    (Generated /\ ~AllSupported)
        => /\ gret.kind = "raise"
           /\ (num_rows = 0
                 \/ \A j \in 1..(FirstUnsupported - 1) : ~DeclaresNothing(gen_columns[j]))
                => gret.val = Error("ValueError", "Unsupported data type")

\* The unsupported column is registered last, after a column that can be
\* generated, and rows are asked for.
C13_Witness_UnsupportedLast ==
    /\ Generated
    /\ gret.kind = "raise"
    /\ num_rows >= 1
    /\ Len(gen_columns) = 2
    /\ gen_columns[1].data_type = "bool"
    /\ gen_columns[2].data_type \notin SupportedTypes

\* --------------------------------------------------------------------------
\* Properties of DataCleaner
\* --------------------------------------------------------------------------

\* The rows of rows that are not among seen nor earlier in rows, in order.
RECURSIVE FirstOccurrences(_, _)
FirstOccurrences(rows, seen) ==
    IF rows = <<>> THEN <<>>
    ELSE IF \E i \in 1..Len(seen) : seen[i] = Head(rows)
    THEN FirstOccurrences(Tail(rows), seen)
    ELSE <<Head(rows)>> \o FirstOccurrences(Tail(rows), Append(seen, Head(rows)))

\* C16: remove_duplicates() with no subset and keep='first' leaves exactly
\* the first occurrence of each distinct row, in the original order.
C16_FirstOccurrencesKept ==
    (sret.op = "remove_duplicates" /\ sret.args = <<None, "first">>)
        => /\ SelfDf.rows = FirstOccurrences(before.rows, <<>>)
           /\ SelfDf.cols = before.cols

\* A call that removed the later copy of a row that has one.
C16_Witness_LaterCopyRemoved ==
    /\ sret.op = "remove_duplicates" /\ sret.args = <<None, "first">>
    /\ before = FrameACD
    /\ SelfDf.index = <<0, 1, 3>>

\* v is the mean of the values of xs that are not missing.
IsMeanOf(v, xs) ==
    LET s == Sum(NotNull(xs))
    IN /\ v.kind = "num"
       /\ v.num * s.den * Len(NotNull(xs)) = s.num * v.den

\* The middle of the values of xs that are not missing, in ascending order.
Median(xs) ==
    LET s == SortSeq(NotNull(xs), Less)
        n == Len(s)
    IN IF n % 2 = 1 THEN s[(n + 1) \div 2]
       ELSE LET t == Add(s[n \div 2], s[n \div 2 + 1]) IN Num(t.num, t.den * 2)

\* The selected numeric columns that had a value before the call.
FilledColumns ==
    {c \in Selected(before, sret.args[2]) :
        IsNumericDtype(before, c) /\ NotNull(ColumnOf(before, c)) # <<>>}

FillCall(strategy) == sret.op = "fill_missing_values" /\ sret.args[1] = strategy

\* C17: after fill_missing_values('mean') no numeric column that had a value
\* holds a missing value: each cell that was missing holds the mean of the
\* column's values that were not, and every other cell keeps its value.
C17_MeanFillsNumericColumns ==
    FillCall(Text("mean")) =>
        /\ Len(SelfDf.rows) = Len(before.rows)
        /\ \A c \in FilledColumns : \A r \in 1..Len(before.rows) :
              IF IsNull(before.rows[r][c])
              THEN IsMeanOf(SelfDf.rows[r][c], ColumnOf(before, c))
              ELSE SelfDf.rows[r][c] = before.rows[r][c]

\* A mean fill of a column whose mean is none of its values, beside a
\* column that is all missing.
C17_Witness_MeanFilled ==
    /\ FillCall(Text("mean"))
    /\ before = FrameXYZ
    /\ sret.args[2] = None
    /\ SelfDf.rows[1] = <<Num(3, 2), Num(3, 1), NaN>>

\* C18: fill_missing_values('median') fills every missing cell of a numeric
\* column with the median of the column's values that are not missing.
C18_MedianFillsNumericColumns ==
    FillCall(Text("median")) =>
        \A c \in FilledColumns : \A r \in 1..Len(before.rows) :
            IsNull(before.rows[r][c])
                => SelfDf.rows[r][c] = Median(ColumnOf(before, c))

\* C19: fill_missing_values(strategy) with a strategy that is not 'mean',
\* 'median' or 'mode' takes it as a literal: every cell of the selected
\* columns that was missing holds it afterwards.
C19_LiteralFillsSelectedColumns ==
    (/\ sret.op = "fill_missing_values"
     /\ sret.args[1] \notin {Text("mean"), Text("median"), Text("mode")})
        => \A c \in Selected(before, sret.args[2]) : \A r \in 1..Len(before.rows) :
              IsNull(before.rows[r][c]) => SelfDf.rows[r][c] = sret.args[1]

\* The rows dropna is to keep, in order.
RECURSIVE KeptRows(_, _, _)
KeptRows(rows, cs, how) ==
    IF rows = <<>> THEN <<>>
    ELSE LET row == Head(rows)
             goes == IF how = "any" THEN \E c \in cs : IsNull(row[c])
                     ELSE \A c \in cs : IsNull(row[c])
         IN (IF goes THEN <<>> ELSE <<row>>) \o KeptRows(Tail(rows), cs, how)

\* C20: drop_missing_values drops a row exactly when any (how='any') or
\* every (how='all') checked column of it is missing, and keeps the other
\* rows in order.
C20_DropsRowsByHow ==
    sret.op = "drop_missing_values" =>
        /\ SelfDf.rows = KeptRows(before.rows, Selected(before, sret.args[1]), sret.args[2])
        /\ SelfDf.cols = before.cols

\* how='all' dropped the row that was all missing and kept rows that have
\* missing cells.
C20_Witness_AllKeepsPartRows ==
    /\ sret.op = "drop_missing_values" /\ sret.args = <<None, "all">>
    /\ before = FrameXYZ
    /\ SelfDf.index = <<1, 2>>

\* --------------------------------------------------------------------------
\* Properties of the helpers
\* --------------------------------------------------------------------------

\* A call with a name the method does not know.
UnknownName ==
    \/ sret.op = "hypothesis_testing" /\ sret.args[3] \notin {"t-test", "anova"}
    \/ sret.op = "keyword_extraction" /\ sret.args[2] \notin {"tfidf", "count"}

\* C14: hypothesis_testing with a test other than 't-test' and 'anova', and
\* keyword_extraction with a method other than 'tfidf' and 'count', raise
\* ValueError before anything is computed and leave the wrapped dataset as it
\* was.
C14_UnknownNameRaisesFirst ==
    UnknownName =>
        /\ sret.kind = "raise"
        /\ sret.val.type = "ValueError"
        /\ sret.computed = <<>>
        /\ SelfDf = before

\* An unknown method name on a dataset that an earlier call had changed.
C14_Witness_UnknownMethod ==
    /\ sret.op = "keyword_extraction"
    /\ sret.args[2] = "lda"
    /\ sret.kind = "raise"
    /\ SelfDf # passed

Mutators ==
    {"remove_duplicates", "fill_missing_values", "drop_missing_values",
     "encode_labels", "apply_custom_transform"}

\* C15: whatever calls are made on a helper, the dataset the caller passed to
\* its constructor keeps its columns, rows and values, and every mutator
\* returns the helper it was called on.
C15_CallerDatasetUnchanged ==
    /\ frames.caller = passed
    /\ sret.op \in Mutators => sret.val = Self

\* A mutator that changed the helper's dataset in place.
C15_Witness_ChangedInPlace ==
    /\ sret.op = "drop_missing_values"
    /\ helper.df = "own"
    /\ SelfDf # before
    /\ before # passed

\* --------------------------------------------------------------------------
\* Further properties of QueryBuilder
\* --------------------------------------------------------------------------

\* The place of the last select among the clause calls h (0 when none).
LastSelect(h) ==
    IF \E i \in 1..Len(h) : h[i].op = "select"
    THEN CHOOSE i \in 1..Len(h) :
            h[i].op = "select" /\ \A j \in (i + 1)..Len(h) : h[j].op # "select"
    ELSE 0

ReadOnlyCall == caller.op = "load_csv" /\ ~caller.save_to_db

\* C24: load_csv with save_to_db false returns the dataset read from the
\* file and writes nothing: from the call to its return no table of the
\* store is created or changed, with or without a table_name.
C24_ReadOnlyLoadLeavesStore ==
    /\ [](ReadOnlyCall /\ caller.pc = "returned"
            => caller.val = ReadCsv(caller.file_paths[1]))
    /\ [][ReadOnlyCall /\ caller.pc = "in_load_csv" => db' = db]_vars

\* A read-only load with a table_name, of a table that an earlier call wrote.
C24_Witness_NamedTableKept ==
    /\ ReadOnlyCall
    /\ caller.pc = "returned"
    /\ tasks[1].table_name = Some("t")
    /\ db["t"].exists
    /\ db["t"].rows # FileRows(caller.file_paths[1])

\* C26: load_csv with save_to_db true returns None when it succeeds, and the
\* list load_multiple_csvs(save_to_db=True) returns holds None at the place
\* of every file.
C26_SavingLoadReturnsNone ==
    /\ (DirectCallOver /\ caller.pc = "returned" /\ caller.save_to_db)
          => caller.val = None
    /\ (MultiCall /\ caller.pc = "returned" /\ caller.save_to_db)
          => \A i \in 1..Len(caller.val.items) : caller.val.items[i] = None

\* Two files saved by one call, no write failing.
C26_Witness_TwoFilesSaved ==
    /\ MultiCall
    /\ caller.pc = "returned"
    /\ caller.save_to_db
    /\ caller.val = List(<<None, None>>)
    /\ \A i \in 1..2 : ~tasks[i].failed

\* The table an activation writes.
WrittenTable(task) ==
    IF task.table_name = None
    THEN SplitFirst(SplitLast(task.file_path, "/"), ".")[1]
    ELSE task.table_name.v

\* What loading file_path alone, chunk after chunk from chunk k, leaves of
\* table tbl.
RECURSIVE LoadedAlone(_, _, _)
LoadedAlone(tbl, file_path, k) ==
    IF k > NumChunks(file_path, chunk_size) THEN tbl
    ELSE LoadedAlone([exists |-> TRUE,
                      cols |-> ChunkOf(file_path, chunk_size, k).cols,
                      rows |-> ChunkOf(file_path, chunk_size, k).rows],
                     file_path, k + 1)

\* A load_multiple_csvs(save_to_db=True) call of two files is over, its loads
\* wrote different tables and none of their writes raised.
DistinctTablesCallOver ==
    /\ MultiCall
    /\ caller.pc = "returned"
    /\ caller.save_to_db
    /\ Len(tasks) = 2
    /\ WrittenTable(tasks[1]) # WrittenTable(tasks[2])
    /\ \A i \in 1..2 : ~tasks[i].failed

\* C27: when the loads of one load_multiple_csvs(save_to_db=True) call write
\* pairwise different tables, each table ends as a load of its file alone
\* leaves it, whatever the interleaving of the workers.
C27_DistinctTablesAsLoadedAlone ==
    DistinctTablesCallOver =>
        \A i \in 1..2 :
            db[WrittenTable(tasks[i])] = LoadedAlone(NoTable, tasks[i].file_path, 1)

\* Two files of several chunks each, the second load finishing first.
C27_Witness_SecondFinishedFirst ==
    /\ DistinctTablesCallOver
    /\ chunk_size = 1
    /\ tasks[2].rank < tasks[1].rank

\* --------------------------------------------------------------------------
\* Properties of Config
\* --------------------------------------------------------------------------

\* The last call was Config(config_file) and it returned.
Constructed == cret.op = "__init__" /\ cret.kind = "return"

\* C23: Config on a path where no file exists writes the default document
\* there and uses it as the configuration; Config on an existing file takes
\* the configuration the file's text encodes and writes nothing.  A file that
\* cannot be read makes the constructor raise, and nothing is written.
C23_MissingFileGetsDefault ==
    /\ Constructed =>
          LET p == cret.args.config_file
          IN /\ config.config_file = p
             /\ IF cret.fs[p] = NoFile
                THEN /\ config.config_data = default_config
                     /\ files = [cret.fs EXCEPT ![p] = JsonFile(JsonDump(default_config))]
                ELSE /\ cret.fs[p].kind = "json"
                     /\ JsonDump(config.config_data) = cret.fs[p].text
                     /\ files = cret.fs
    /\ (cret.op = "__init__" /\ cret.kind = "raise") =>
          files = cret.fs /\ config = cret.obj

\* A second Config was built on a path that held no file, beside a first one
\* built on the user's file.
C23_Witness_DefaultWritten ==
    /\ Constructed
    /\ cret.obj # None
    /\ cret.fs[cret.args.config_file] = NoFile
    /\ files[cret.args.config_file] # NoFile
    /\ cret.obj.config_data = CustomConfig

\* The (section, key) pairs asked about: those the calls name and those of
\* the default document's flat sections.
Pairs == (Sections \cup {"database"}) \X (Keys \cup {"name", "path"})

\* The last call was set(section, key, value) and it made its assignment.
Assigned == cret.op = "set" /\ ~SetRaises(cret.obj.config_data, cret.args.section)

\* get(section, key) on a configuration, None where it raises.
Asked(config_data, pair) ==
    IF GetRaises(config_data, pair[1]) THEN Error("AttributeError", "")
    ELSE GetValue(config_data, pair[1], pair[2], None)

\* C30: right after set(section, key, v), get(section, key) gives v on the
\* same object and on a new Config built from the same file, every other
\* pair gives what it gave before, and a get of a missing section or key
\* gives the default and changes neither the configuration nor the file.
C30_SetPersistentAndLocal ==
    /\ Assigned =>
          LET pair == <<cret.args.section, cret.args.key>>
              again == LoadConfig(files, config.config_file)
          IN /\ Asked(config.config_data, pair) = cret.args.value
             /\ again.kind = "return"
             /\ Asked(again.data, pair) = cret.args.value
             /\ \A other \in Pairs \ {pair} :
                   /\ Asked(config.config_data, other) = Asked(cret.obj.config_data, other)
                   /\ Asked(again.data, other) = Asked(cret.obj.config_data, other)
    /\ (/\ cret.op = "get"
        /\ ~GetRaises(cret.obj.config_data, cret.args.section)
        /\ cret.args.key \notin
              DOMAIN SectionOf(cret.obj.config_data, cret.args.section).items) =>
          /\ cret.kind = "return"
          /\ cret.val = cret.args.default
          /\ files = cret.fs
          /\ config = cret.obj

\* --------------------------------------------------------------------------
\* Properties of Core
\* --------------------------------------------------------------------------

\* What a query gives on one store when it runs to its end.
Visible(store, q) ==
    IF q.kind = "select" /\ store[q.table].exists
    THEN RowList(store[q.table].rows)
    ELSE None

\* C28: query_data runs against the store 'data.db' whatever store an
\* earlier save_to_sqlite was given: what it returns is what 'data.db' held,
\* it leaves every other store alone, and a save_to_sqlite to another store
\* leaves 'data.db' as it was.
C28_QueryReadsDataDb ==
    /\ (kret.op = "query_data" /\ kret.kind = "return") =>
          /\ kret.val = Visible(kret.stores[CoreDbPath], kret.args.query)
          /\ \A p \in DbPaths \ {CoreDbPath} : stores[p] = kret.stores[p]
    /\ (kret.op = "save_to_sqlite" /\ kret.args.db_path # CoreDbPath) =>
          stores[CoreDbPath] = kret.stores[CoreDbPath]

\* A query on a table that was saved to another store only: it gives nothing.
C28_Witness_SavedElsewhere ==
    /\ kret.op = "query_data" /\ kret.kind = "return"
    /\ kret.args.query.kind = "select"
    /\ \E p \in DbPaths \ {CoreDbPath} : kret.stores[p][CoreTable].exists
    /\ ~kret.stores[CoreDbPath][CoreTable].exists
    /\ kret.val = None

\* C29: with the default configuration and columns=None, generate_data
\* raises ValueError before it generates: the dataframe and the output files
\* are as the call found them.
C29_DefaultConfigHasNoColumns ==
    (/\ kret.op = "generate_data"
     /\ kret.args.columns = None
     /\ config.config_data = default_config) =>
        /\ kret.kind = "raise"
        /\ kret.val.type = "ValueError"
        /\ core = kret.core
        /\ outputs = kret.outputs
        /\ stores = kret.stores

\* The call that raised came after one that had generated a dataset, and the
\* default configuration had been read from a file.
C29_Witness_RaisedAfterGenerated ==
    /\ kret.op = "generate_data"
    /\ kret.args.columns = None
    /\ config.config_data = default_config
    /\ cret.fs[DefaultConfigFile] # NoFile
    /\ core.dataframe # None
    /\ outputs[DefaultSavePath] # None

\* --------------------------------------------------------------------------
\* Further properties of DataCleaner
\* --------------------------------------------------------------------------

\* xs holds at least two different values.
TwoValues(xs) ==
    \E i, j \in 1..Len(xs) : ~IsNull(xs[i]) /\ ~IsNull(xs[j]) /\ xs[i] # xs[j]

Zero == Num(0, 1)
One == Num(1, 1)

\* C21: after normalize_data, every chosen column that held at least two
\* different values has the minimum 0 and the maximum 1, each of its values
\* lies in [0, 1], and two values that were in order are still in order; a
\* missing cell stays missing.
C21_NormalizedToUnitInterval ==
    (sret.op = "normalize_data" /\ sret.kind = "return") =>
        \A c \in Chosen(before, sret.args[1]) :
            LET old == ColumnOf(before, c)
                new == ColumnOf(SelfDf, c)
                rs == {r \in 1..Len(old) : ~IsNull(old[r])}
            IN TwoValues(old) =>
                  /\ Len(new) = Len(old)
                  /\ Min(new) = Zero
                  /\ Max(new) = One
                  /\ \A r \in 1..Len(old) : IsNull(new[r]) <=> IsNull(old[r])
                  /\ \A r \in rs : ~Less(new[r], Zero) /\ ~Less(One, new[r])
                  /\ \A r, q \in rs : ~Less(old[q], old[r]) => ~Less(new[q], new[r])

\* A normalized column with a value strictly between 0 and 1.
C21_Witness_ValueInside ==
    /\ sret.op = "normalize_data"
    /\ SelfDf # before
    /\ \E c \in Chosen(before, sret.args[1]) :
          /\ TwoValues(ColumnOf(before, c))
          /\ \E r \in 1..Len(SelfDf.rows) :
                /\ ~IsNull(SelfDf.rows[r][c])
                /\ Less(Zero, SelfDf.rows[r][c])
                /\ Less(SelfDf.rows[r][c], One)

\* C22: remove_outliers(method='IQR', factor=f) leaves exactly the rows whose
\* value in every chosen column is inside [Q1 - f * IQR, Q3 + f * IQR] as
\* computed on the dataset it found, with their cells as they were, whether
\* columns is None, a list or one name; an unknown method raises ValueError
\* and leaves the dataset as it was.  A missing value counts as inside.
C22_OutlierRowsRemoved ==
    /\ (sret.op = "remove_outliers" /\ sret.args[2] = "IQR") =>
          /\ sret.kind = "return"
          /\ SelfDf = WithoutOutlyingRows(before, Chosen(before, sret.args[1]),
                                          sret.args[3])
    /\ (sret.op = "remove_outliers" /\ sret.args[2] \notin {"IQR", "Z-score"}) =>
          /\ sret.kind = "raise"
          /\ sret.val.type = "ValueError"
          /\ SelfDf = before

=============================================================================
